---- MODULE Spec2Model ----
(***************************************************************************)
(* Chava: values carrying verification obligations and a hash-chained      *)
(* evidence log; release of the value is gated on the obligations being    *)
(* discharged (core.py), on the scope algebra (algebra.py) and on the      *)
(* obligation-keyed encryption of the store (kms.py); the persistent       *)
(* store (sqlite_storage.py) and the in-memory indexes (indexes.py).       *)
(*                                                                         *)
(* Python strings that the code takes apart (scopes, JSON pointers) are    *)
(* sequences of one-character strings; "" is <<>>.  Kinds, verifier ids    *)
(* and results are only compared for equality (and, for kinds, sorted) and *)
(* are TLA+ strings.                                                       *)
(***************************************************************************)
EXTENDS Integers, Sequences, FiniteSets, TLC

VARIABLES
    reg,        \* the caller's variable: a ChavaObject, or nothing yet
    storage,    \* ObligationKeyedStorage.storage: obj_id -> stored record
    last,       \* the last call: its name, its arguments and its outcome
    hist,       \* history of reg: the object it was created as while only
                \* accepting discharges have been applied since (orig), and
                \* whether a merge of two non-empty evidence logs went into it (seam)
    shist,      \* history: per obj_id, the object last stored there and its hist
    nmerge,     \* the number of merge calls made
    worker,     \* concurrent callers of discharge on reg: per caller, where it
                \* is in the call and the call's local variables
    heap,       \* the Python objects by identity: ChavaObjects, lists, dicts
    hstorage,   \* ObligationKeyedStorage.storage, holding references
    hlast,      \* the last call on the heap
    elog,       \* an evidence list, as has_conflict and verify_evidence_chain
                \* are given it
    verdict,    \* what has_conflict and verify_evidence_chain return for elog
    tamper,     \* the one record of elog changed after it was written, if any
    oblA,       \* two obligation lists, as derive_key is given them
    oblB,
    keys,       \* the keys derive_key returns for oblA and oblB
    rel,        \* a scope and a base, as relscope is given them, and what it
                \* returns
    wire,       \* the object to_json was last called on, the text or the
                \* exception it gave, and what from_json made of the text
    db,         \* the SQLite database file as committed: its three tables
    dblock,     \* the connection that holds the write lock of the file
    conn,       \* the callers of batch_discharge: per caller, where it is in
                \* retrieve / discharge / store and its open transaction
    sqlast,     \* the last call on the persistent store and its outcome
    sqhist,     \* history: per obj_id, the object of the last store that
                \* committed, its nonce, the store instance and the caller, and
                \* whether it replaced a record with more obligations
    inst,       \* the number of store instances opened on the file
    trie,       \* HierarchicalPointerIndex: the object_ids of every node, a
                \* node being the list of components that leads to it
    tadds,      \* history: the (obj_id, scope) pairs the trie was given
    trieq,      \* the last get_objects_at_path and what it returned
    evindex,    \* EvidenceLogIndex.timestamp_index: (timestamp, obj_id, record)
    evq,        \* the last query_by_time_range and its outcome
    oblindex,   \* InvertedObligationIndex.index: kind -> set of obj_ids
    oblleft,    \* history: per obj_id, the obligations it was added with
                \* that no remove_obligation call has named since
    oblq        \* the last call on the inverted index and what it returned

occVars == <<worker>>
heapVars == <<heap, hstorage, hlast>>
logVars == <<elog, verdict, tamper>>
keyVars == <<oblA, oblB, keys>>
relVars == <<rel>>
jsonVars == <<wire>>
sqlVars == <<db, dblock, conn, sqlast, sqhist, inst>>
trieVars == <<trie, tadds, trieq>>
timeVars == <<evindex, evq>>
kindVars == <<oblindex, oblleft, oblq>>
coreVars == <<reg, storage, last, hist, shist, nmerge>>

\* The variables of the serialisation, of the persistent store and of the
\* indexes
laterVars == <<relVars, jsonVars, sqlVars, trieVars, timeVars, kindVars>>

\* What the calls of the sequential specifications leave alone
otherVars == <<occVars, heapVars, logVars, keyVars, laterVars>>
\* What the concurrent callers, the calls on the heap and the calls on the
\* evidence list leave alone besides reg, storage and their histories
occFrame == <<heapVars, logVars, keyVars, laterVars>>
heapFrame == <<occVars, logVars, keyVars, laterVars>>
logFrame == <<occVars, heapVars, keyVars, laterVars>>
keyFrame == <<occVars, heapVars, logVars, laterVars>>
\* What the calls of relscope leave alone
earlyVars == <<coreVars, occVars, heapVars, logVars, keyVars>>
relFrame == <<earlyVars, jsonVars, sqlVars, trieVars, timeVars, kindVars>>
\* What to_json and from_json leave alone
jsonFrame == <<earlyVars, relVars, sqlVars, trieVars, timeVars, kindVars>>
\* What the calls on the persistent store leave alone besides the caller's
\* object
sqlFrame ==
    <<occVars, heapVars, logVars, keyVars, relVars, jsonVars, trieVars, timeVars, kindVars>>
\* What the calls on the pointer index leave alone
trieFrame == <<earlyVars, relVars, jsonVars, sqlVars, timeVars, kindVars>>
\* What the calls on the evidence index leave alone
timeFrame == <<earlyVars, relVars, jsonVars, sqlVars, trieVars, kindVars>>
\* What the calls on the inverted index leave alone
kindFrame == <<earlyVars, relVars, jsonVars, sqlVars, trieVars, timeVars>>

vars == <<reg, storage, last, hist, shist, nmerge, otherVars>>

\* ------------------------------------------------------------------ bounds
\* Cap on the length of an evidence list.
MaxEvidence == 2
\* Cap on the length of an obligation list that merge or project builds.
MaxObligations == 3
\* Cap on the number of merge calls in a run.
MaxMerges == 1
\* The number of Python objects allocated in a run of the heap specification
MaxHeap == 11
\* Cap on the length of the evidence list given to the evidence functions
MaxLog == 3
\* Cap on the length of an obligation list given to derive_key
MaxKeyList == 3
\* Cap on the length of a scope and of a base given to relscope
MaxScope == 3
\* Cap on the number of store instances opened on one database file
MaxOpens == 2
\* Cap on the number of records in the timestamp index
MaxIndex == 3

\* ------------------------------------------------------------- input sets
EmptyStr == <<>>
Results == {"accept", "reject", "conditional"}
\* The verifier call that returns no result: it raises, or it is cancelled
\* (an exception raised inside the call).
Raises == "raises"
VerifierIds == {"v1"}
Times == {1}
ObjIds == {"id1"}

\* A registry that also has a verifier for "invalid_path"
RegistryWithInvalidPath == {"sql_safe", "pii_clean", "schema_ok", "invalid_path"}

\* The kinds the default registry knows.
DefaultRegistry == {"sql_safe", "pii_clean", "schema_ok"}

\* JSON values: a tag and, by tag, the text of a string, the items of an
\* array, the members of an object (a dict: key and value pairs in insertion
\* order), a number, or the text of a bytes value.
VNull == [t |-> "null"]
VStr(s) == [t |-> "str", s |-> s]
VArr(items) == [t |-> "arr", items |-> items]
VObj(members) == [t |-> "obj", m |-> members]
VNum(n) == [t |-> "num", n |-> n]
VBytes(s) == [t |-> "bytes", s |-> s]

\* -------------------------------------------------------- python helpers
\* x in list
Contains(list, x) == \E i \in 1..Len(list) : list[i] = x

\* list.remove(x): delete the first occurrence of x (x is known to occur).
RECURSIVE ListRemove(_, _)
ListRemove(list, x) ==
    IF list = <<>> THEN <<>>
    ELSE IF Head(list) = x THEN Tail(list)
    ELSE <<Head(list)>> \o ListRemove(Tail(list), x)

\* ----------------------------------------------------------- core.py
\* ChavaObject(value, obligations, evidence): the constructor rebuilds the
\* obligation list pair by pair and keeps the evidence it is given.
ChavaObject(value, obligations, evidence) ==
    [value |-> value,
     obligations |-> [i \in 1..Len(obligations) |-> <<obligations[i][1], obligations[i][2]>>],
     evidence |-> evidence]

\* A copy that starts a new evidence log
CopyDroppingEvidence(obj) == ChavaObject(obj.value, obj.obligations, <<>>)
\* ChavaObject.copy: a new object with a new obligation list and a copy of
\* every evidence record.
Copy(obj) ==
    ChavaObject(obj.value,
                [i \in 1..Len(obj.obligations) |-> obj.obligations[i]],
                [i \in 1..Len(obj.evidence) |-> obj.evidence[i]])

\* A hash that also covers kind and scope
compute_evidence_hash_with_kind(record) ==
    <<record.verifier_id, record.result, record.timestamp, record.prev_hash,
      IF "kind" \in DOMAIN record THEN record.kind ELSE "None", record.scope>>
\* compute_evidence_hash: SHA-256 over the canonical JSON of ver, res, ts and
\* prev.  The digest is modelled as the tuple of the four hashed fields (a
\* collision-free hash); kind, scope and the stored hash are not part of it.
compute_evidence_hash(record) ==
    <<record.verifier_id, record.result, record.timestamp, record.prev_hash>>

\* A check of the links alone, without recomputing any record's hash
verify_evidence_chain_links_only(evidence) ==
    \A i \in 2..Len(evidence) : evidence[i].prev_hash = evidence[i-1].hash
\* A check that also wants the first record to link to nothing
verify_evidence_chain_anchored(evidence) ==
    IF evidence = <<>> THEN TRUE
    ELSE /\ evidence[1].prev_hash = EmptyStr
         /\ \A i \in 1..Len(evidence) :
               /\ evidence[i].hash = compute_evidence_hash(evidence[i])
               /\ (i > 1 => evidence[i].prev_hash = evidence[i-1].hash)
\* verify_evidence_chain: every record's hash is the hash of the record and
\* every record after the first links to its predecessor's hash.
verify_evidence_chain(evidence) ==
    IF evidence = <<>> THEN TRUE
    ELSE \A i \in 1..Len(evidence) :
            /\ evidence[i].hash = compute_evidence_hash(evidence[i])
            /\ (i > 1 => evidence[i].prev_hash = evidence[i-1].hash)

\* Python's None as a dict key of latest_verdicts, written as a name that no
\* kind has.
PyNone == "None"

\* record.get("kind")
GetKind(record) == IF "kind" \in DOMAIN record THEN record.kind ELSE PyNone

\* A conflict only while the latest result is an accept
ScanResultsLatest(results, reject_found) ==
    /\ results # <<>>
    /\ results[Len(results)] = "accept"
    /\ \E i \in 1..(Len(results) - 1) : results[i] = "reject"
\* The second loop of has_conflict on one kind's list of results: a reject
\* seen earlier (reject_found) and an accept now.
RECURSIVE ScanResults(_, _)
ScanResults(results, reject_found) ==
    IF results = <<>> THEN FALSE
    ELSE IF Head(results) = "reject" THEN ScanResults(Tail(results), TRUE)
    ELSE IF Head(results) = "accept" /\ reject_found THEN TRUE
    ELSE ScanResults(Tail(results), reject_found)

\* One bucket for all records, whatever their kind
LatestVerdictsAll(evidence, kind) ==
    [i \in 1..Len(evidence) |-> evidence[i].result]
\* One verdict per kind: the latest
LatestVerdictOnly(evidence, kind) ==
    LET at == {i \in 1..Len(evidence) : GetKind(evidence[i]) = kind}
    IN IF at = {} THEN <<>>
       ELSE <<evidence[CHOOSE i \in at : \A j \in at : j <= i].result>>
\* The first loop of has_conflict: latest_verdicts[kind], the results of the
\* records of one kind in log order.
RECURSIVE LatestVerdicts(_, _)
LatestVerdicts(evidence, kind) ==
    IF evidence = <<>> THEN <<>>
    ELSE (IF GetKind(Head(evidence)) = kind THEN <<Head(evidence).result>> ELSE <<>>)
         \o LatestVerdicts(Tail(evidence), kind)

has_conflict(evidence) ==
    \E kind \in {GetKind(evidence[i]) : i \in 1..Len(evidence)} :
        ScanResults(LatestVerdicts(evidence, kind), FALSE)

\* is_cleared without the conflict detector
is_cleared_obligations_only(obj) == Len(obj.obligations) = 0

is_cleared(obj) == Len(obj.obligations) = 0 /\ ~has_conflict(obj.evidence)

\* unwrap: the value, or ObligationViolation naming the remaining kinds.
unwrap(obj) ==
    IF ~is_cleared(obj)
    THEN [exc |-> "ObligationViolation",
          remaining_kinds |-> {obj.obligations[i][1] : i \in 1..Len(obj.obligations)}]
    ELSE [exc |-> "none", value |-> obj.value]

\* ------------------------------------------------- jsonpointer (library)
\* pointer.split('/')
RECURSIVE SplitSlash(_, _)
SplitSlash(str, cur) ==
    IF str = <<>> THEN <<cur>>
    ELSE IF Head(str) = "/" THEN <<cur>> \o SplitSlash(Tail(str), <<>>)
    ELSE SplitSlash(Tail(str), Append(cur, Head(str)))

Digits == <<"0", "1", "2", "3", "4", "5", "6", "7", "8", "9">>
IsDigit(c) == \E d \in 1..Len(Digits) : Digits[d] = c
DigitVal(c) == (CHOOSE d \in 1..Len(Digits) : Digits[d] = c) - 1

\* The array index pattern 0|[1-9][0-9]*
IsArrayIndex(part) ==
    /\ part # <<>>
    /\ \A i \in 1..Len(part) : IsDigit(part[i])
    /\ (Len(part) > 1 => part[1] # "0")

RECURSIVE IndexVal(_, _)
IndexVal(part, acc) ==
    IF part = <<>> THEN acc
    ELSE IndexVal(Tail(part), acc * 10 + DigitVal(Head(part)))

\* The failure of a resolution (JsonPointerException).
Unresolved == [t |-> "JsonPointerException"]

\* JsonPointer.walk: one step into a dict (by key), or into a list or a str
\* (by index; a str yields its character); anything else does not index.
Walk(doc, part) ==
    IF doc.t = "obj"
    THEN IF \E i \in 1..Len(doc.m) : doc.m[i][1] = part
         THEN doc.m[CHOOSE i \in 1..Len(doc.m) : doc.m[i][1] = part][2]
         ELSE Unresolved
    ELSE IF doc.t \in {"arr", "str"}
    THEN IF ~IsArrayIndex(part) THEN Unresolved
         ELSE LET i == IndexVal(part, 0)
                  n == IF doc.t = "arr" THEN Len(doc.items) ELSE Len(doc.s)
              IN IF i >= n THEN Unresolved
                 ELSE IF doc.t = "arr" THEN doc.items[i + 1]
                 ELSE VStr(<<doc.s[i + 1]>>)
    ELSE Unresolved

RECURSIVE WalkParts(_, _)
WalkParts(doc, parts) ==
    IF parts = <<>> THEN doc
    ELSE LET next == Walk(doc, Head(parts))
         IN IF next = Unresolved THEN Unresolved ELSE WalkParts(next, Tail(parts))

\* jsonpointer.resolve_pointer(doc, pointer) with no default: the pointer is
\* "" or starts with '/', and every part resolves.
resolve_pointer(doc, pointer) ==
    LET parts == SplitSlash(pointer, <<>>)
    IN IF Head(parts) # <<>> THEN Unresolved
       ELSE WalkParts(doc, Tail(parts))

\* ------------------------------------------------- core.py: discharge
\* The membership test on the kind alone
IsPendingAnyScope(obj, kind, scope) ==
    \E i \in 1..Len(obj.obligations) : obj.obligations[i][1] = kind

\* target_obligation in new_obj.obligations
IsPending(obj, kind, scope) == Contains(obj.obligations, <<kind, scope>>)

\* A record that never links back
PrevHashUnlinked(evidence) == EmptyStr

\* The hash the new record links to: the last record's, or "".
PrevHash(evidence) ==
    IF evidence # <<>> THEN evidence[Len(evidence)].hash ELSE EmptyStr

\* Every copy of the target removed on accept
RemainingNoCopies(obligations, target_obligation, result) ==
    IF result = "accept"
    THEN SelectSeq(obligations, LAMBDA o : o # target_obligation)
    ELSE obligations

\* The target never removed
RemainingAll(obligations, target_obligation, result) == obligations

\* The target removed whatever the verdict
RemainingOnAnyVerdict(obligations, target_obligation, result) ==
    ListRemove(obligations, target_obligation)

\* The obligations after the verdict: one occurrence of the target removed
\* on accept, the list as it was otherwise.
Remaining(obligations, target_obligation, result) ==
    IF result = "accept" THEN ListRemove(obligations, target_obligation)
    ELSE obligations

\* discharge(obj, kind, scope, registry, verifier_id).  registry is the set
\* of kinds with a verifier; result is what the verifier returns on the
\* scoped value and now what time.time() returns.  The outcome is the object
\* returned or the exception raised, and whether the verifier was called.
discharge(obj, kind, scope, registry, verifier_id, result, now) ==
    LET new_obj == Copy(obj)
        target_obligation == <<kind, scope>>
    IN
    IF ~IsPending(new_obj, kind, scope)
    THEN [exc |-> "none", obj |-> new_obj, verifier_called |-> FALSE]
    ELSE IF kind \notin registry
    THEN [exc |-> "KeyError", verifier_called |-> FALSE]
    ELSE IF result = Raises
    THEN [exc |-> "VerifierException", verifier_called |-> TRUE]
    ELSE
      LET scoped_value ==
              IF scope = EmptyStr THEN new_obj.value
              ELSE LET r == resolve_pointer(new_obj.value, scope)
                   IN IF r = Unresolved THEN VNull ELSE r
          prev_hash == PrevHash(new_obj.evidence)
          evidence_record ==
              [verifier_id |-> verifier_id,
               result |-> result,
               timestamp |-> now,
               prev_hash |-> prev_hash,
               kind |-> kind,
               scope |-> scope]
          record_hash == compute_evidence_hash(evidence_record)
          appended == Append(new_obj.evidence,
                             [verifier_id |-> evidence_record.verifier_id,
                              result |-> evidence_record.result,
                              timestamp |-> evidence_record.timestamp,
                              prev_hash |-> evidence_record.prev_hash,
                              kind |-> evidence_record.kind,
                              scope |-> evidence_record.scope,
                              hash |-> record_hash])
      IN [exc |-> "none",
          obj |-> [value |-> new_obj.value,
                   obligations |-> Remaining(new_obj.obligations, target_obligation, result),
                   evidence |-> appended],
          verifier_called |-> TRUE]

\* ----------------------------------------------------------- algebra.py
\* str.lstrip('/')
RECURSIVE LStripSlash(_)
LStripSlash(str) ==
    IF str # <<>> /\ Head(str) = "/" THEN LStripSlash(Tail(str)) ELSE str

\* str.startswith(prefix)
StartsWith(str, prefix) ==
    /\ Len(prefix) <= Len(str)
    /\ SubSeq(str, 1, Len(prefix)) = prefix

relscope(scope, path) ==
    IF scope = EmptyStr THEN EmptyStr
    ELSE LET scope1 == LStripSlash(scope)
             path1 == LStripSlash(path)
         IN IF StartsWith(scope1, path1)
            THEN LET remaining ==
                         LStripSlash(SubSeq(scope1, Len(path1) + 1, Len(scope1)))
                 IN IF remaining # <<>> THEN <<"/">> \o remaining ELSE EmptyStr
            ELSE EmptyStr

\* A loop that drops nothing: an obligation beside the path is kept as it is
RECURSIVE ProjectObligationsKeepAll(_, _)
ProjectObligationsKeepAll(obligations, path) ==
    IF obligations = <<>> THEN <<>>
    ELSE LET kind == Head(obligations)[1]
             scope == Head(obligations)[2]
             rest == ProjectObligationsKeepAll(Tail(obligations), path)
         IN IF scope = EmptyStr \/ scope = path \/ StartsWith(scope, path \o <<"/">>)
            THEN <<(<<kind, relscope(scope, path)>>)>> \o rest
            ELSE IF StartsWith(path, scope \o <<"/">>)
            THEN <<(<<kind, EmptyStr>>)>> \o rest
            ELSE <<(<<kind, scope>>)>> \o rest

\* The loop of project over the obligations, in order.
RECURSIVE ProjectObligations(_, _)
ProjectObligations(obligations, path) ==
    IF obligations = <<>> THEN <<>>
    ELSE LET kind == Head(obligations)[1]
             scope == Head(obligations)[2]
             rest == ProjectObligations(Tail(obligations), path)
         IN IF scope = EmptyStr \/ scope = path \/ StartsWith(scope, path \o <<"/">>)
            THEN <<(<<kind, relscope(scope, path)>>)>> \o rest
            ELSE IF StartsWith(path, scope \o <<"/">>)
            THEN <<(<<kind, EmptyStr>>)>> \o rest
            ELSE rest

\* A project that narrows the obligations also when the path does not resolve
project_narrowing(obj, path) ==
    ChavaObject(IF resolve_pointer(obj.value, path) = Unresolved THEN VNull
                ELSE resolve_pointer(obj.value, path),
                ProjectObligations(obj.obligations, path)
                    \o (IF resolve_pointer(obj.value, path) = Unresolved
                        THEN <<(<<"invalid_path", EmptyStr>>)>> ELSE <<>>),
                obj.evidence)

project(obj, path) ==
    LET extracted_value == resolve_pointer(obj.value, path)
    IN IF extracted_value = Unresolved
       THEN ChavaObject(VNull,
                        obj.obligations \o <<(<<"invalid_path", EmptyStr>>)>>,
                        obj.evidence)
       ELSE ChavaObject(extracted_value,
                        ProjectObligations(obj.obligations, path),
                        obj.evidence)

\* Loops that leave the empty scope empty
PrefixObligationsWidening(obligations, prefix) ==
    [i \in 1..Len(obligations) |->
        <<obligations[i][1],
          IF obligations[i][2] = EmptyStr THEN EmptyStr ELSE prefix \o obligations[i][2]>>]

\* The two loops of merge: every scope gets the prefix "/0" (resp. "/1").
PrefixObligations(obligations, prefix) ==
    [i \in 1..Len(obligations) |->
        <<obligations[i][1],
          IF obligations[i][2] = EmptyStr THEN prefix ELSE prefix \o obligations[i][2]>>]

\* A merge that links the first record of obj2's evidence behind obj1's
merge_relinking(obj1, obj2) ==
    ChavaObject(VArr(<<obj1.value, obj2.value>>),
                PrefixObligations(obj1.obligations, <<"/", "0">>)
                    \o PrefixObligations(obj2.obligations, <<"/", "1">>),
                obj1.evidence
                    \o [i \in 1..Len(obj2.evidence) |->
                           IF i = 1
                           THEN [obj2.evidence[i] EXCEPT !.prev_hash = PrevHash(obj1.evidence)]
                           ELSE obj2.evidence[i]])

\* A merge that puts obj2's evidence first
merge_evidence_reversed(obj1, obj2) ==
    ChavaObject(VArr(<<obj1.value, obj2.value>>),
                PrefixObligations(obj1.obligations, <<"/", "0">>)
                    \o PrefixObligations(obj2.obligations, <<"/", "1">>),
                obj2.evidence \o obj1.evidence)

merge(obj1, obj2) ==
    ChavaObject(VArr(<<obj1.value, obj2.value>>),
                PrefixObligations(obj1.obligations, <<"/", "0">>)
                    \o PrefixObligations(obj2.obligations, <<"/", "1">>),
                obj1.evidence \o obj2.evidence)

\* --------------------------------------------------------------- kms.py
\* Python's order on str: by code point.  Alphabet lists the characters the
\* scopes are written in, in code point order; KindRank gives the order of
\* the kind names ('invalid_path' < 'pii_clean' < 'schema_ok' < 'sql_safe').
Alphabet == <<"/", "0", "1", "a", "b", "c">>
CodeRank(c) == CHOOSE i \in 1..Len(Alphabet) : Alphabet[i] = c
KindRank == [invalid_path |-> 1, pii_clean |-> 2, schema_ok |-> 3, sql_safe |-> 4]

RECURSIVE StrLess(_, _)
StrLess(a, b) ==
    IF b = <<>> THEN FALSE
    ELSE IF a = <<>> THEN TRUE
    ELSE IF Head(a) # Head(b) THEN CodeRank(Head(a)) < CodeRank(Head(b))
    ELSE StrLess(Tail(a), Tail(b))

\* (k1, s1) < (k2, s2) on tuples of str
PairLess(p, q) ==
    IF p[1] # q[1] THEN KindRank[p[1]] < KindRank[q[1]] ELSE StrLess(p[2], q[2])

RECURSIVE InsertSorted(_, _)
InsertSorted(sorted, p) ==
    IF sorted = <<>> THEN <<p>>
    ELSE IF PairLess(p, Head(sorted)) THEN <<p>> \o sorted
    ELSE <<Head(sorted)>> \o InsertSorted(Tail(sorted), p)

\* A list that is left in the order it came in
Unsorted(list) == list
\* sorted(norm)
RECURSIVE Sorted(_)
Sorted(list) ==
    IF list = <<>> THEN <<>>
    ELSE InsertSorted(Sorted(SubSeq(list, 1, Len(list) - 1)), list[Len(list)])

\* str() of a list of (kind, scope) tuples: "[('k', 's'), ('k', 's')]".  A
\* kind is one element of the text.
RECURSIVE ReprPairs(_)
ReprPairs(list) ==
    IF list = <<>> THEN <<>>
    ELSE <<"(", "'", Head(list)[1], "'", ",", " ", "'">> \o Head(list)[2] \o <<"'", ")">>
         \o (IF Len(list) > 1 THEN <<",", " ">> ELSE <<>>)
         \o ReprPairs(Tail(list))
ObligationsStr(list) == <<"[">> \o ReprPairs(list) \o <<"]">>

\* The server secret the KMS is constructed with.
ServerSecret == "sigma"

\* derive_key: PBKDF2-HMAC-SHA256 of the secret, salted with the SHA-256 of
\* str(sorted(obligations)).  Hash and KDF are taken to be collision-free:
\* the key is the pair of what they are computed from.
derive_key(obligations, server_secret) ==
    LET norm == [i \in 1..Len(obligations) |-> <<obligations[i][1], obligations[i][2]>>]
        obl_str == ObligationsStr(Sorted(norm))
    IN <<"key", obl_str, server_secret>>

\* None, for a key that is not released
NoKey == <<>>

\* The release without the chain verification
verify_and_release_key_unverified(obj) ==
    IF Len(obj.obligations) > 0 THEN NoKey
    ELSE IF has_conflict(obj.evidence) THEN NoKey
    ELSE derive_key(<<>>, ServerSecret)

\* The release without the conflict check
verify_and_release_key_conflicting(obj) ==
    IF Len(obj.obligations) > 0 THEN NoKey
    ELSE IF ~verify_evidence_chain(obj.evidence) THEN NoKey
    ELSE derive_key(<<>>, ServerSecret)

verify_and_release_key(obj) ==
    IF Len(obj.obligations) > 0 THEN NoKey
    ELSE IF ~verify_evidence_chain(obj.evidence) THEN NoKey
    ELSE IF has_conflict(obj.evidence) THEN NoKey
    ELSE derive_key(<<>>, ServerSecret)

\* str(value) for the JSON values: the text of a str, repr() of anything else.
RECURSIVE Decimal(_)
Decimal(n) ==
    IF n < 10 THEN <<Digits[n + 1]>> ELSE Decimal(n \div 10) \o <<Digits[(n % 10) + 1]>>

RECURSIVE PyRepr(_)
RECURSIVE ReprItems(_)
RECURSIVE ReprMembers(_)
ReprItems(items) ==
    IF items = <<>> THEN <<>>
    ELSE PyRepr(Head(items))
         \o (IF Len(items) > 1 THEN <<",", " ">> ELSE <<>>)
         \o ReprItems(Tail(items))
ReprMembers(members) ==
    IF members = <<>> THEN <<>>
    ELSE <<"'">> \o Head(members)[1] \o <<"'", ":", " ">> \o PyRepr(Head(members)[2])
         \o (IF Len(members) > 1 THEN <<",", " ">> ELSE <<>>)
         \o ReprMembers(Tail(members))
PyRepr(v) ==
    IF v.t = "str" THEN <<"'">> \o v.s \o <<"'">>
    ELSE IF v.t = "bytes" THEN <<"b", "'">> \o v.s \o <<"'">>
    ELSE IF v.t = "num" THEN Decimal(v.n)
    ELSE IF v.t = "arr" THEN <<"[">> \o ReprItems(v.items) \o <<"]">>
    ELSE IF v.t = "obj" THEN <<"{">> \o ReprMembers(v.m) \o <<"}">>
    ELSE <<"N", "o", "n", "e">>

PyStr(v) == IF v.t = "str" THEN v.s ELSE PyRepr(v)

\* AESGCM(key).encrypt(nonce, data, None) and nonce + ciphertext: what is
\* stored decrypts to data under the same key and nonce, and under no other
\* key (the tag does not verify: InvalidTag).
Encrypt(key, nonce, data) == [nonce |-> nonce, key |-> key, data |-> data]
InvalidTag == [t |-> "InvalidTag"]
Decrypt(key, stored_data) ==
    IF stored_data.key = key THEN stored_data.data ELSE InvalidTag

\* ObligationKeyedStorage.store: the record written under obj_id.
StoreRecord(obj, nonce) ==
    LET encryption_key == derive_key(obj.obligations, ServerSecret)
        value_bytes == IF obj.value.t = "bytes" THEN obj.value
                       ELSE VBytes(PyStr(obj.value))
    IN [stored_data |-> Encrypt(encryption_key, nonce, value_bytes),
        obligations |-> obj.obligations,
        evidence |-> obj.evidence]

\* A missing key of the storage dict
NotStored == [stored_data |-> "none"]

\* A retrieve that derives the key from the stored obligations itself
retrieve_ungated(storage_dict, obj_id) ==
    IF storage_dict[obj_id] = NotStored THEN [exc |-> "KeyError"]
    ELSE LET rec == storage_dict[obj_id]
             key == derive_key(rec.obligations, ServerSecret)
             decrypted_value == Decrypt(key, rec.stored_data)
         IN IF decrypted_value = InvalidTag THEN [exc |-> "InvalidTag"]
            ELSE [exc |-> "none",
                  obj |-> ChavaObject(VStr(decrypted_value.s),
                                      rec.obligations, rec.evidence)]

\* ObligationKeyedStorage.retrieve on the storage dict
retrieve(storage_dict, obj_id) ==
    IF storage_dict[obj_id] = NotStored THEN [exc |-> "KeyError"]
    ELSE LET rec == storage_dict[obj_id]
             temp_obj == ChavaObject(VNull, rec.obligations, rec.evidence)
             key == verify_and_release_key(temp_obj)
         IN IF key = NoKey THEN [exc |-> "CryptographicException"]
            ELSE LET decrypted_value == Decrypt(key, rec.stored_data)
                 IN IF decrypted_value = InvalidTag THEN [exc |-> "InvalidTag"]
                    ELSE [exc |-> "none",
                          obj |-> ChavaObject(VStr(decrypted_value.s),
                                              rec.obligations, rec.evidence)]

\* ------------------------------------------------------------ json
\* A JSON text is the sequence of its tokens: punctuation, null, and
\* string and number literals carrying what they spell.
Tok(t) == [tok |-> t]
TStr(s) == [tok |-> "string", s |-> s]
TNum(n) == [tok |-> "number", n |-> n]
\* What stands in the text where json.dumps raises TypeError
NotSerializable == Tok("TypeError")

\* Items or members with ", " between them
RECURSIVE JoinComma(_)
JoinComma(texts) ==
    IF texts = <<>> THEN <<>>
    ELSE IF Len(texts) = 1 THEN texts[1]
    ELSE texts[1] \o <<Tok(",")>> \o JoinComma(Tail(texts))

\* json.dumps of a value: dict -> object, list -> array, str -> string,
\* int -> number, None -> null; bytes is not JSON serializable.
RECURSIVE DumpsValue(_)
DumpsValue(v) ==
    CASE v.t = "null" -> <<Tok("null")>>
      [] v.t = "str" -> <<TStr(v.s)>>
      [] v.t = "num" -> <<TNum(v.n)>>
      [] v.t = "arr" ->
           <<Tok("[")>> \o JoinComma([i \in 1..Len(v.items) |-> DumpsValue(v.items[i])])
                       \o <<Tok("]")>>
      [] v.t = "obj" ->
           <<Tok("{")>>
           \o JoinComma([i \in 1..Len(v.m) |->
                           <<TStr(v.m[i][1]), Tok(":")>> \o DumpsValue(v.m[i][2])])
           \o <<Tok("}")>>
      [] OTHER -> <<NotSerializable>>

\* A list that writes each distinct pair once
DumpsObligationsOnce(obligations) ==
    LET first == SelectSeq([i \in 1..Len(obligations) |-> i],
                           LAMBDA i : ~\E j \in 1..(i - 1) : obligations[j] = obligations[i])
    IN <<Tok("[")>>
       \o JoinComma([n \in 1..Len(first) |->
                       <<Tok("["), TStr(obligations[first[n]][1]), Tok(","),
                         TStr(obligations[first[n]][2]), Tok("]")>>])
       \o <<Tok("]")>>

\* json.dumps of the obligation list: a tuple is written as an array.
DumpsObligations(obligations) ==
    <<Tok("[")>>
    \o JoinComma([i \in 1..Len(obligations) |->
                    <<Tok("["), TStr(obligations[i][1]), Tok(","),
                      TStr(obligations[i][2]), Tok("]")>>])
    \o <<Tok("]")>>

\* The keys of an evidence record, in the order discharge inserts them
EvidenceKeys == <<"verifier_id", "result", "timestamp", "prev_hash", "kind", "scope", "hash">>

\* json.dumps of the evidence list: every record is an object with the
\* record's keys; the timestamp is a number, the other values are strings.
DumpsRecord(record) ==
    LET present == SelectSeq(EvidenceKeys, LAMBDA k : k \in DOMAIN record)
    IN <<Tok("{")>>
       \o JoinComma([i \in 1..Len(present) |->
                       <<TStr(present[i]), Tok(":"),
                         IF present[i] = "timestamp" THEN TNum(record[present[i]])
                         ELSE TStr(record[present[i]])>>])
       \o <<Tok("}")>>
DumpsEvidence(evidence) ==
    <<Tok("[")>> \o JoinComma([i \in 1..Len(evidence) |-> DumpsRecord(evidence[i])])
                \o <<Tok("]")>>

\* json.loads: a value and the text after it.  Arrays come back as lists
\* and objects as dicts, members in the order of the text.
RECURSIVE LoadsValue(_)
RECURSIVE LoadsItems(_, _)
RECURSIVE LoadsMembers(_, _)
LoadsValue(text) ==
    LET h == Head(text)
    IN CASE h.tok = "null" -> [v |-> VNull, rest |-> Tail(text)]
         [] h.tok = "string" -> [v |-> VStr(h.s), rest |-> Tail(text)]
         [] h.tok = "number" -> [v |-> VNum(h.n), rest |-> Tail(text)]
         [] h.tok = "[" -> LoadsItems(Tail(text), <<>>)
         [] h.tok = "{" -> LoadsMembers(Tail(text), <<>>)
LoadsItems(text, items) ==
    IF Head(text).tok = "]" THEN [v |-> VArr(items), rest |-> Tail(text)]
    ELSE LET text1 == IF Head(text).tok = "," THEN Tail(text) ELSE text
             r == LoadsValue(text1)
         IN LoadsItems(r.rest, Append(items, r.v))
LoadsMembers(text, members) ==
    IF Head(text).tok = "}" THEN [v |-> VObj(members), rest |-> Tail(text)]
    ELSE LET text1 == IF Head(text).tok = "," THEN Tail(text) ELSE text
             key == Head(text1).s
             r == LoadsValue(Tail(Tail(text1)))
         IN LoadsMembers(r.rest, Append(members, <<key, r.v>>))
JsonLoads(text) == LoadsValue(text).v

\* data[key] of a dict json.loads returned
DictGet(data, key) ==
    LET i == CHOOSE i \in 1..Len(data.m) : data.m[i][1] = key
    IN data.m[i][2]

\* An evidence record json.loads returned, as the dict it is
LoadedRecord(data) ==
    [k \in {data.m[i][1] : i \in 1..Len(data.m)} |->
        LET v == DictGet(data, k) IN IF v.t = "num" THEN v.n ELSE v.s]

\* ChavaObject.to_json: the text, or the TypeError of json.dumps
to_json(obj) ==
    LET json_str ==
            <<Tok("{"), TStr("@v"), Tok(":")>> \o DumpsValue(obj.value)
            \o <<Tok(","), TStr("@o"), Tok(":")>> \o DumpsObligations(obj.obligations)
            \o <<Tok(","), TStr("@e"), Tok(":")>> \o DumpsEvidence(obj.evidence)
            \o <<Tok("}")>>
    IN IF Contains(json_str, NotSerializable)
       THEN [exc |-> "TypeError"]
       ELSE [exc |-> "none", json_str |-> json_str]

\* ChavaObject.from_json: the loaded pairs are lists and are made tuples.
from_json(json_str) ==
    LET data == JsonLoads(json_str)
        loaded == DictGet(data, "@o").items
        obligations == [i \in 1..Len(loaded) |->
                           <<loaded[i].items[1].s, loaded[i].items[2].s>>]
        evidence == DictGet(data, "@e").items
    IN ChavaObject(DictGet(data, "@v"), obligations,
                   [i \in 1..Len(evidence) |-> LoadedRecord(evidence[i])])

\* ------------------------------------------------- sqlite_storage.py
\* The ids the persistent store is called with
SqlIds == {"id1", "id2"}

\* The database file: the row of chava_objects per obj_id, the rows of
\* obligation_index (a set: the primary key is the whole row) and the rows of
\* evidence_index in the order they were inserted.
NoRow == [row |-> "none"]
NoFile == [file |-> "none"]
EmptyTables ==
    [chava_objects |-> [id \in SqlIds |-> NoRow],
     obligation_index |-> {},
     evidence_index |-> <<>>]

\* init_database: CREATE TABLE IF NOT EXISTS leaves existing tables alone.
init_database(file) == IF file = NoFile THEN EmptyTables ELSE file

\* text.encode() and what bytes.decode() gives back: the bytes of a JSON
\* text, or bytes that were never a JSON text
Encode(text) == [t |-> "bytes", text |-> text]
RawBytes(s) == Encode(<<[tok |-> "raw", s |-> s]>>)
\* value_bytes: json.dumps(obj.value).encode(), or the bytes themselves
ValueBytes(value) ==
    IF value.t = "bytes" THEN RawBytes(value.s) ELSE Encode(DumpsValue(value))

\* The row store writes into chava_objects
ObjectRow(obj, nonce) ==
    LET encryption_key == derive_key(obj.obligations, ServerSecret)
    IN [value_encrypted |-> Encrypt(encryption_key, nonce, ValueBytes(obj.value)),
        obligations_json |-> DumpsObligations(obj.obligations),
        evidence_json |-> DumpsEvidence(obj.evidence)]

\* INSERT OR REPLACE INTO chava_objects
InsertOrReplaceObject(tables, obj_id, row) ==
    [tables EXCEPT !.chava_objects[obj_id] = row]

\* DELETE FROM obligation_index WHERE obj_id = ?
DeleteObligationIndex(tables, obj_id) ==
    [tables EXCEPT !.obligation_index = {r \in @ : r[1] # obj_id}]

\* INSERT INTO obligation_index: a row that is there already violates the
\* primary key.
InsertObligationIndex(tables, obj_id, kind, scope) ==
    IF <<obj_id, kind, scope>> \in tables.obligation_index
    THEN [exc |-> "IntegrityError", tables |-> tables]
    ELSE [exc |-> "none",
          tables |-> [tables EXCEPT !.obligation_index = @ \cup {<<obj_id, kind, scope>>}]]

\* for kind, scope in obj.obligations: INSERT INTO obligation_index
RECURSIVE InsertObligations(_, _, _)
InsertObligations(tables, obj_id, obligations) ==
    IF obligations = <<>> THEN [exc |-> "none", tables |-> tables]
    ELSE LET r == InsertObligationIndex(tables, obj_id, obligations[1][1], obligations[1][2])
         IN IF r.exc # "none" THEN r
            ELSE InsertObligations(r.tables, obj_id, Tail(obligations))

\* An index that keeps the rows of the record it replaces
RebuildObligationIndexKeeping(tables, obj_id, obligations) ==
    [exc |-> "none",
     tables |-> [tables EXCEPT !.obligation_index =
                    @ \cup {<<obj_id, obligations[i][1], obligations[i][2]>> :
                               i \in 1..Len(obligations)}]]
\* The obligation index of obj_id, deleted and inserted again
RebuildObligationIndex(tables, obj_id, obligations) ==
    InsertObligations(DeleteObligationIndex(tables, obj_id), obj_id, obligations)

\* DELETE FROM evidence_index WHERE obj_id = ?, then one INSERT per record
RebuildEvidenceIndex(tables, obj_id, evidence) ==
    [tables EXCEPT !.evidence_index =
        SelectSeq(@, LAMBDA r : r[1] # obj_id)
        \o [i \in 1..Len(evidence) |->
              <<obj_id, evidence[i].verifier_id, evidence[i].timestamp,
                evidence[i].result>>]]

\* A connection in autocommit mode: every statement is written to the file
\* as it is executed
AfterStatementAutocommit(file, tables) == tables
\* The file as the other connections read it while a connection has executed
\* statements and not yet committed: the tables as last committed.
AfterStatement(file, tables) == file

\* The statements of store, in order, up to the first that raises
StoreStatements(tables, obj_id, obj, nonce) ==
    LET t1 == InsertOrReplaceObject(tables, obj_id, ObjectRow(obj, nonce))
        r2 == RebuildObligationIndex(t1, obj_id, obj.obligations)
    IN IF r2.exc # "none" THEN r2
       ELSE [exc |-> "none",
             tables |-> RebuildEvidenceIndex(r2.tables, obj_id, obj.evidence)]

\* ChavaSQLiteStorage.store: the connection commits when the block ends and
\* rolls back when a statement raises.
sqlite_store(file, obj_id, obj, nonce) ==
    LET r == StoreStatements(file, obj_id, obj, nonce)
    IN IF r.exc # "none" THEN [exc |-> r.exc, file |-> file]
       ELSE [exc |-> "none", file |-> r.tables]

\* A retrieve that asks the KMS to release the key
sqlite_retrieve_gated(file, obj_id) ==
    LET row == file.chava_objects[obj_id]
    IN IF row = NoRow THEN [exc |-> "KeyError"]
       ELSE LET loaded == JsonLoads(row.obligations_json).items
                obligations == [i \in 1..Len(loaded) |->
                                   <<loaded[i].items[1].s, loaded[i].items[2].s>>]
                records == JsonLoads(row.evidence_json).items
                evidence == [i \in 1..Len(records) |-> LoadedRecord(records[i])]
                key == verify_and_release_key(ChavaObject(VNull, obligations, evidence))
            IN IF key = NoKey THEN [exc |-> "CryptographicException"]
               ELSE [exc |-> "none",
                     obj |-> ChavaObject(JsonLoads(Decrypt(key, row.value_encrypted).text),
                                         obligations, evidence)]

\* ChavaSQLiteStorage.retrieve: the key is derived from the stored
\* obligations; no clearance check.
sqlite_retrieve(file, obj_id) ==
    LET row == file.chava_objects[obj_id]
    IN IF row = NoRow THEN [exc |-> "KeyError"]
       ELSE LET loaded == JsonLoads(row.obligations_json).items
                obligations == [i \in 1..Len(loaded) |->
                                   <<loaded[i].items[1].s, loaded[i].items[2].s>>]
                records == JsonLoads(row.evidence_json).items
                evidence == [i \in 1..Len(records) |-> LoadedRecord(records[i])]
                key == derive_key(obligations, ServerSecret)
                decrypted_value == Decrypt(key, row.value_encrypted)
            IN IF decrypted_value = InvalidTag THEN [exc |-> "InvalidTag"]
               ELSE IF decrypted_value.text[1].tok = "raw"
               THEN [exc |-> "JSONDecodeError"]
               ELSE [exc |-> "none",
                     obj |-> ChavaObject(JsonLoads(decrypted_value.text),
                                         obligations, evidence)]

\* query_by_obligation: the ids of the rows with the kind, or with the kind
\* and the scope; scope None is AnyScope.
AnyScope == <<"None">>
query_by_obligation(file, kind, scope) ==
    IF scope = AnyScope
    THEN {r[1] : r \in {x \in file.obligation_index : x[2] = kind}}
    ELSE {r[1] : r \in {x \in file.obligation_index : x[2] = kind /\ x[3] = scope}}

\* An Optional[float] argument: None, or a time
NoTime == <<>>
SomeTime(t) == <<t>>

\* ORDER BY e.timestamp: the rows by ascending timestamp; rows of one
\* timestamp are given in the order of the table (SQL states no order for
\* them, and nothing here depends on it).
RECURSIVE OrderByTimestamp(_)
OrderByTimestamp(rows) ==
    IF rows = <<>> THEN <<>>
    ELSE LET first == CHOOSE t \in {rows[i][3] : i \in 1..Len(rows)} :
                         \A i \in 1..Len(rows) : t <= rows[i][3]
         IN SelectSeq(rows, LAMBDA r : r[3] = first)
            \o OrderByTimestamp(SelectSeq(rows, LAMBDA r : r[3] # first))

\* query_by_verifier: the rows of evidence_index of the verifier within the
\* bounds given, joined with chava_objects; for every row, the obj_id and
\* evidence_list[0] of the object's evidence_json.
query_by_verifier(file, verifier_id, start_time, end_time) ==
    LET selected ==
            SelectSeq(file.evidence_index,
                      LAMBDA r : /\ file.chava_objects[r[1]] # NoRow
                                 /\ r[2] = verifier_id
                                 /\ (start_time # NoTime => r[3] >= start_time[1])
                                 /\ (end_time # NoTime => r[3] <= end_time[1]))
        fetched == OrderByTimestamp(selected)
        evidence_list(obj_id) == JsonLoads(file.chava_objects[obj_id].evidence_json).items
        kept == SelectSeq(fetched, LAMBDA r : evidence_list(r[1]) # <<>>)
    IN [i \in 1..Len(kept) |-> <<kept[i][1], LoadedRecord(evidence_list(kept[i][1])[1])>>]

\* --------------------------------------------------------- indexes.py
\* HierarchicalPointerIndex._split_path
split_path(path) ==
    IF path = EmptyStr THEN <<>>
    ELSE LET path1 == LStripSlash(path)
         IN IF path1 = <<>> THEN <<>> ELSE SplitSlash(path1, <<>>)

\* The trie: the root is the empty list of components.
EmptyTrie == [node \in {<<>>} |-> {}]

\* components[:n] for every n: the nodes on the way to a scope
Prefixes(components) == {SubSeq(components, 1, n) : n \in 0..Len(components)}
IsPrefix(a, b) == Len(a) <= Len(b) /\ SubSeq(b, 1, Len(a)) = a

\* One turn of the loop of add: the nodes on the way are created and the id
\* is added at the last one.
AddScope(t, obj_id, scope) ==
    LET components == IF scope = EmptyStr THEN <<>> ELSE split_path(scope)
        t1 == [node \in DOMAIN t \cup Prefixes(components) |->
                  IF node \in DOMAIN t THEN t[node] ELSE {}]
    IN [t1 EXCEPT ![components] = @ \cup {obj_id}]

\* HierarchicalPointerIndex.add
RECURSIVE trie_add(_, _, _)
trie_add(t, obj_id, obligations) ==
    IF obligations = <<>> THEN t
    ELSE trie_add(AddScope(t, obj_id, obligations[1][2]), obj_id, Tail(obligations))

\* The loop of get_objects_at_path: down the components, stopping at the
\* first that is not a child.
RECURSIVE Descend(_, _, _)
Descend(t, node, components) ==
    IF components = <<>> THEN node
    ELSE IF Append(node, Head(components)) \in DOMAIN t
    THEN Descend(t, Append(node, Head(components)), Tail(components))
    ELSE node

\* HierarchicalPointerIndex.get_objects_at_path: the ids of the node reached
\* and of every node below it.
get_objects_at_path(t, path) ==
    LET node == Descend(t, <<>>, split_path(path))
    IN UNION {t[below] : below \in {n \in DOMAIN t : IsPrefix(node, n)}}

\* The obj_ids of the evidence index and the two strings of the probes, in
\* the order Python compares str: "" < "obj1" < "~" < "~obj".
IdRank == [id \in {"", "obj1", "~", "~obj"} |->
             CASE id = "" -> 0 [] id = "obj1" -> 1 [] id = "~" -> 2 [] id = "~obj" -> 3]

\* The {} of the probes; no record of the index is empty.
EmptyDict == [empty |-> TRUE]

\* a < b for tuples (timestamp, obj_id, record): the first place where the
\* two differ decides; two dicts that differ cannot be ordered.
TupleLess(a, b) ==
    IF a[1] # b[1] THEN (IF a[1] < b[1] THEN "true" ELSE "false")
    ELSE IF a[2] # b[2] THEN (IF IdRank[a[2]] < IdRank[b[2]] THEN "true" ELSE "false")
    ELSE IF a[3] = b[3] THEN "false"
    ELSE "TypeError"

\* bisect.bisect_left(a, x): slots are counted from 0.
RECURSIVE bisect_left(_, _, _, _)
bisect_left(a, x, lo, hi) ==
    IF lo >= hi THEN [exc |-> "none", idx |-> lo]
    ELSE LET mid == (lo + hi) \div 2
             less == TupleLess(a[mid + 1], x)
         IN IF less = "TypeError" THEN [exc |-> "TypeError"]
            ELSE IF less = "true" THEN bisect_left(a, x, mid + 1, hi)
            ELSE bisect_left(a, x, lo, mid)

\* bisect.bisect_right(a, x)
RECURSIVE bisect_right(_, _, _, _)
bisect_right(a, x, lo, hi) ==
    IF lo >= hi THEN [exc |-> "none", idx |-> lo]
    ELSE LET mid == (lo + hi) \div 2
             less == TupleLess(x, a[mid + 1])
         IN IF less = "TypeError" THEN [exc |-> "TypeError"]
            ELSE IF less = "true" THEN bisect_right(a, x, lo, mid)
            ELSE bisect_right(a, x, mid + 1, hi)

\* list.sort(key=lambda x: x[0]): stable, by timestamp only
RECURSIVE InsertByTime(_, _)
InsertByTime(sorted, entry) ==
    IF sorted = <<>> THEN <<entry>>
    ELSE IF entry[1] < Head(sorted)[1] THEN <<entry>> \o sorted
    ELSE <<Head(sorted)>> \o InsertByTime(Tail(sorted), entry)
RECURSIVE SortByTime(_)
SortByTime(list) ==
    IF list = <<>> THEN <<>>
    ELSE InsertByTime(SortByTime(SubSeq(list, 1, Len(list) - 1)), list[Len(list)])

\* EvidenceLogIndex.add, the timestamp index: the records are appended and
\* the list is sorted.
evidence_index_add(timestamp_index, obj_id, evidence) ==
    SortByTime(timestamp_index
               \o [i \in 1..Len(evidence) |-> <<evidence[i].timestamp, obj_id, evidence[i]>>])

\* EvidenceLogIndex.query_by_time_range
query_by_time_range(timestamp_index, start_time, end_time) ==
    LET start_idx == bisect_left(timestamp_index, <<start_time, "", EmptyDict>>,
                                 0, Len(timestamp_index))
        end_idx == bisect_right(timestamp_index, <<end_time, "~", EmptyDict>>,
                                0, Len(timestamp_index))
    IN IF start_idx.exc # "none" \/ end_idx.exc # "none" THEN [exc |-> "TypeError"]
       ELSE LET slice == SubSeq(timestamp_index, start_idx.idx + 1, end_idx.idx)
            IN [exc |-> "none",
                out |-> [i \in 1..Len(slice) |-> <<slice[i][2], slice[i][3]>>]]

\* ------------------------------------ indexes.py: InvertedObligationIndex
\* defaultdict(set) with no key
EmptyIndex == [kind \in {} |-> {}]
KindIds == {"obj1", "obj2"}
NotAdded == <<"none">>

\* self.index[kind].add(obj_id): the defaultdict makes the set when the key
\* is new.
BucketAdd(index, kind, obj_id) ==
    [k \in DOMAIN index \cup {kind} |->
        IF k = kind
        THEN (IF kind \in DOMAIN index THEN index[kind] ELSE {}) \cup {obj_id}
        ELSE index[k]]

\* add(obj_id, obligations): the loop over the obligations
RECURSIVE inverted_add(_, _, _)
inverted_add(index, obj_id, obligations) ==
    IF obligations = <<>> THEN index
    ELSE inverted_add(BucketAdd(index, Head(obligations)[1], obj_id), obj_id,
                      Tail(obligations))

\* get_objects_with_kind(kind): the obj_ids of the bucket, in no stated order
get_objects_with_kind(index, kind) ==
    IF kind \in DOMAIN index THEN index[kind] ELSE {}

\* remove_obligation(obj_id, kind, scope): the obj_id leaves the bucket of
\* the kind, and a bucket left empty is deleted.
remove_obligation(index, obj_id, kind, scope) ==
    IF kind \in DOMAIN index /\ obj_id \in index[kind]
    THEN LET bucket == index[kind] \ {obj_id}
         IN IF bucket = {} THEN [k \in DOMAIN index \ {kind} |-> index[k]]
            ELSE [index EXCEPT ![kind] = bucket]
    ELSE index

\* ======================================================== the state machine
\* A variable that holds nothing
NoObj == [value |-> "none"]

\* The objects the callers construct: a value, obligations, empty evidence.
SqlText == <<"s">>
Record1 == VObj(<< <<(<<"a">>), VStr(<<"c">>)>>, <<(<<"b">>), VNum(1)>> >>)
NewObjects ==
    { ChavaObject(VStr(SqlText), << <<"sql_safe", EmptyStr>> >>, <<>>),
      ChavaObject(Record1, << <<"pii_clean", <<"/", "a">> >>, <<"sql_safe", EmptyStr>>,
                              <<"pii_clean", <<"/", "a">> >> >>, <<>>),
      ChavaObject(VStr(SqlText), <<>>, <<>>) }

\* The arguments the callers pass
ArgKinds == {"sql_safe", "pii_clean", "invalid_path"}
ArgScopes == {EmptyStr, <<"/", "a">>}
ArgPaths == {<<"/", "a">>, <<"/", "b">>, <<"/", "c">>}
Nonces == {"n1"}

\* The other operand of a merge: an object the core produced from a new
\* object by one discharge, or a new object.
Discharged(o, result) ==
    discharge(o, o.obligations[1][1], o.obligations[1][2], DefaultRegistry,
              "v1", result, 1).obj
MergeOperands ==
    LET o == ChavaObject(VStr(SqlText), << <<"sql_safe", EmptyStr>> >>, <<>>)
    IN {o, Discharged(o, "accept"), Discharged(o, "reject")}

NoCall == [op |-> "none"]
NoHist == [orig |-> NoObj, seam |-> FALSE]
NoStoreHist == [obj |-> NoObj, hist |-> NoHist]

\* The evidence functions have been given the empty list.
NoTamper == [field |-> "none"]
Verdict(evidence) ==
    [has_conflict |-> has_conflict(evidence),
     verify_chain |-> verify_evidence_chain(evidence)]
LogInit ==
    /\ elog = <<>>
    /\ verdict = Verdict(<<>>)
    /\ tamper = NoTamper

\* derive_key has been given two empty lists.
Keys(a, b) == [a |-> derive_key(a, ServerSecret), b |-> derive_key(b, ServerSecret)]
KeyInit ==
    /\ oblA = <<>>
    /\ oblB = <<>>
    /\ keys = Keys(<<>>, <<>>)

\* The callers of the concurrent discharges
Workers == {"w1", "w2"}
Idle == [pc |-> "idle"]

\* Nothing has been serialised.
NoWire == [of |-> NoObj, out |-> NoCall, back |-> NoObj]

\* ChavaSQLiteStorage(db_path, kms) on a new file: empty tables, no
\* connection open.
NoWriter == "none"
NoCommit == [obj |-> NoObj]
SqlInit ==
    /\ db = init_database(NoFile)
    /\ dblock = NoWriter
    /\ conn = [w \in Workers |-> Idle]
    /\ sqlast = NoCall
    /\ sqhist = [id \in SqlIds |-> NoCommit]
    /\ inst = 1

\* HierarchicalPointerIndex(): a root with no children and no object_ids
TrieInit ==
    /\ trie = EmptyTrie
    /\ tadds = {}
    /\ trieq = NoCall

\* EvidenceLogIndex(): an empty timestamp index
TimeInit ==
    /\ evindex = <<>>
    /\ evq = NoCall

\* InvertedObligationIndex(): a defaultdict with no key
KindInit ==
    /\ oblindex = EmptyIndex
    /\ oblleft = [id \in KindIds |-> NotAdded]
    /\ oblq = NoCall

\* relscope has been given two empty strings.
RelOut(scope, base) == [scope |-> scope, base |-> base, out |-> relscope(scope, base)]
RelInit == rel = RelOut(EmptyStr, EmptyStr)

\* The serialisation, the persistent store and the indexes before any call
LaterInit ==
    /\ RelInit
    /\ wire = NoWire
    /\ SqlInit
    /\ TrieInit
    /\ TimeInit
    /\ KindInit

Init ==
    /\ worker = [w \in Workers |-> Idle]
    /\ heap = <<>>
    /\ hstorage = [id \in ObjIds |-> NotStored]
    /\ hlast = NoCall
    /\ LogInit
    /\ KeyInit
    /\ LaterInit
    /\ reg = NoObj
    /\ storage = [id \in ObjIds |-> NotStored]
    /\ last = NoCall
    /\ hist = NoHist
    /\ shist = [id \in ObjIds |-> NoStoreHist]
    /\ nmerge = 0

\* reg = ChavaObject(value, obligations, [])
Create(o) ==
    /\ reg' = o
    /\ hist' = [orig |-> o, seam |-> FALSE]
    /\ last' = [op |-> "create", out |-> o]
    /\ UNCHANGED <<storage, shist, nmerge, otherVars>>

\* reg = discharge(reg, kind, scope, registry, verifier_id); a call that
\* raises leaves reg as it was.
Discharge(kind, scope, verifier_id, result, now) ==
    /\ reg # NoObj
    /\ Len(reg.evidence) < MaxEvidence
    /\ LET out == discharge(reg, kind, scope, DefaultRegistry, verifier_id, result, now)
           hit == Contains(reg.obligations, <<kind, scope>>)
           ran == out.verifier_called
       IN /\ ~ran => result = "accept"
          /\ reg' = IF out.exc = "none" THEN out.obj ELSE reg
          /\ hist' = [hist EXCEPT !.orig = IF hit /\ ~(ran /\ result = "accept")
                                           THEN NoObj ELSE @]
          /\ last' = [op |-> "discharge", in |-> reg, kind |-> kind, scope |-> scope,
                      verifier_id |-> verifier_id,
                      result |-> IF ran THEN result ELSE "none",
                      out |-> out]
    /\ UNCHANGED <<storage, shist, nmerge, otherVars>>

\* reg = project(reg, path)
Project(path) ==
    /\ reg # NoObj
    /\ Len(reg.obligations) < MaxObligations
    /\ reg' = project(reg, path)
    /\ hist' = [hist EXCEPT !.orig = NoObj]
    /\ last' = [op |-> "project", in |-> reg, path |-> path, out |-> project(reg, path)]
    /\ UNCHANGED <<storage, shist, nmerge, otherVars>>

\* reg = merge(a, b), for a and b among reg and the other operands
Merge(a, b) ==
    /\ Len(a.evidence) + Len(b.evidence) <= MaxEvidence
    /\ Len(a.obligations) + Len(b.obligations) <= MaxObligations
    /\ nmerge < MaxMerges
    /\ nmerge' = nmerge + 1
    /\ reg' = merge(a, b)
    /\ hist' = [orig |-> NoObj,
                seam |-> \/ hist.seam /\ reg \in {a, b}
                         \/ Len(a.evidence) > 0 /\ Len(b.evidence) > 0]
    /\ last' = [op |-> "merge", in |-> a, in2 |-> b, out |-> merge(a, b)]
    /\ UNCHANGED <<storage, shist, otherVars>>

\* storage.store(obj_id, reg)
Store(obj_id, nonce) ==
    /\ reg # NoObj
    /\ storage' = [storage EXCEPT ![obj_id] = StoreRecord(reg, nonce)]
    /\ shist' = [shist EXCEPT ![obj_id] = [obj |-> reg, hist |-> hist]]
    /\ last' = [op |-> "store", in |-> reg, obj_id |-> obj_id]
    /\ UNCHANGED <<reg, hist, nmerge, otherVars>>

\* reg = storage.retrieve(obj_id); a call that raises leaves reg as it was.
Retrieve(obj_id) ==
    LET out == retrieve(storage, obj_id)
    IN /\ reg' = IF out.exc = "none" THEN out.obj ELSE reg
       /\ hist' = IF out.exc = "none"
                  THEN [orig |-> NoObj, seam |-> shist[obj_id].hist.seam] ELSE hist
       /\ last' = [op |-> "retrieve", obj_id |-> obj_id, out |-> out]
       /\ UNCHANGED <<storage, shist, nmerge, otherVars>>

\* unwrap(reg)
Unwrap ==
    /\ reg # NoObj
    /\ last' = [op |-> "unwrap", in |-> reg, out |-> unwrap(reg)]
    /\ UNCHANGED <<reg, storage, hist, shist, nmerge, otherVars>>

\* kms.verify_and_release_key(reg)
ReleaseKey ==
    /\ reg # NoObj
    /\ last' = [op |-> "verify_and_release_key", in |-> reg,
                out |-> verify_and_release_key(reg)]
    /\ UNCHANGED <<reg, storage, hist, shist, nmerge, otherVars>>

\* The object algebra and the release checks on one object.
Next ==
    \/ \E o \in NewObjects : Create(o)
    \/ \E kind \in ArgKinds, scope \in ArgScopes, verifier_id \in VerifierIds,
          result \in Results, now \in Times :
          Discharge(kind, scope, verifier_id, result, now)
    \/ \E path \in ArgPaths : Project(path)
    \/ \E a \in MergeOperands \cup {reg}, b \in MergeOperands \cup {reg} :
          reg \in {a, b} /\ reg # NoObj /\ Merge(a, b)
    \/ Unwrap
    \/ ReleaseKey

Spec == Init /\ [][Next]_vars

\* The obligation-keyed store, and the objects that go through it.
StoredObjects ==
    { ChavaObject(VStr(SqlText), << <<"sql_safe", EmptyStr>> >>, <<>>),
      ChavaObject(Record1, << <<"pii_clean", <<"/", "a">> >>, <<"sql_safe", EmptyStr>> >>, <<>>),
      ChavaObject(VStr(SqlText), <<>>, <<>>) }

NextStore ==
    \/ \E o \in StoredObjects : Create(o)
    \/ \E kind \in {"sql_safe", "pii_clean"}, scope \in ArgScopes,
          verifier_id \in VerifierIds, result \in {"accept", "reject"}, now \in Times :
          Discharge(kind, scope, verifier_id, result, now)
    \/ \E b \in MergeOperands \cup {reg} : reg # NoObj /\ Merge(reg, b)
    \/ \E obj_id \in ObjIds, nonce \in Nonces : Store(obj_id, nonce)
    \/ \E obj_id \in ObjIds : Retrieve(obj_id)
    \/ Unwrap

SpecStore == Init /\ [][NextStore]_vars

\* ------------------------------------------- project and merge, nested
\* project and merge on values with nested fields, with scopes above, at,
\* below and beside the projected path.
Nested ==
    VObj(<< <<(<<"a">>), VObj(<< <<(<<"b">>), VStr(<<"c">>)>> >>)>>,
            <<(<<"b">>), VNum(1)>> >>)
AlgebraObjects ==
    { ChavaObject(VStr(SqlText), << <<"sql_safe", EmptyStr>> >>, <<>>),
      ChavaObject(Nested, << <<"pii_clean", <<"/", "a">> >>,
                             <<"sql_safe", EmptyStr>> >>, <<>>),
      ChavaObject(Nested, << <<"pii_clean", <<"/", "a", "/", "b">> >>,
                             <<"sql_safe", <<"/", "a", "b">> >> >>, <<>>) }
AlgebraPaths ==
    { EmptyStr, <<"/", "a">>, <<"/", "a", "/", "b">>, <<"/", "c">>,
      <<"/", "0">>, <<"/", "0", "/", "0">>, <<"/", "1">> }

NextAlgebra ==
    \/ \E o \in AlgebraObjects : Create(o)
    \/ \E kind \in {"sql_safe", "pii_clean"}, scope \in ArgScopes,
          verifier_id \in VerifierIds, result \in {"accept", "reject"}, now \in Times :
          Discharge(kind, scope, verifier_id, result, now)
    \/ \E path \in AlgebraPaths : Project(path)
    \/ \E a \in MergeOperands \cup {reg}, b \in MergeOperands \cup {reg} :
          reg \in {a, b} /\ reg # NoObj /\ Merge(a, b)

SpecAlgebra == Init /\ [][NextAlgebra]_vars

\* ------------------------------------- the stored obligations, emptied
\* store keeps obj.obligations itself, not a copy: the list can be emptied
\* in place (obj.obligations.clear()) with no discharge and no store.
ClearStoredObligations(obj_id) ==
    /\ storage[obj_id] # NotStored
    /\ storage[obj_id].obligations # <<>>
    /\ storage' = [storage EXCEPT ![obj_id] =
           [stored_data |-> @.stored_data, obligations |-> <<>>,
            evidence |-> @.evidence]]
    /\ last' = [op |-> "clear", obj_id |-> obj_id]
    /\ UNCHANGED <<reg, hist, shist, nmerge, otherVars>>

NextTamper ==
    \/ \E o \in StoredObjects : Create(o)
    \/ \E kind \in {"sql_safe", "pii_clean"}, scope \in ArgScopes,
          verifier_id \in VerifierIds, result \in {"accept", "reject"}, now \in Times :
          Discharge(kind, scope, verifier_id, result, now)
    \/ \E obj_id \in ObjIds, nonce \in Nonces : Store(obj_id, nonce)
    \/ \E obj_id \in ObjIds : ClearStoredObligations(obj_id)
    \/ \E obj_id \in ObjIds : Retrieve(obj_id)

SpecTamper == Init /\ [][NextTamper]_vars

\* ------------------------------------------- concurrent discharges on reg
\* Each worker runs reg = discharge(reg, kind, scope, registry, verifier_id)
\* once.  The steps are the places of discharge where another thread can
\* run in between: the call (the argument is read, copied and tested), the
\* verifier, the rest of the body (it works on the call's own copy), and the
\* caller's assignment of the returned object.
InitOCC ==
    /\ reg \in {o \in NewObjects : o.obligations # <<>>}
    /\ worker = [w \in Workers |-> Idle]
    /\ heap = <<>>
    /\ hstorage = [id \in ObjIds |-> NotStored]
    /\ hlast = NoCall
    /\ LogInit
    /\ KeyInit
    /\ LaterInit
    /\ storage = [id \in ObjIds |-> NotStored]
    /\ last = NoCall
    /\ hist = [orig |-> reg, seam |-> FALSE]
    /\ shist = [id \in ObjIds |-> NoStoreHist]
    /\ nmerge = 0

\* discharge is entered: new_obj = obj.copy(), the early return when the
\* target is not pending, the registry lookup.
WCall(w, kind, scope, verifier_id) ==
    /\ worker[w].pc = "idle"
    /\ LET new_obj == Copy(reg)
           call == [obj |-> reg, kind |-> kind, scope |-> scope,
                    verifier_id |-> verifier_id, verifier_called |-> FALSE]
       IN worker' = [worker EXCEPT ![w] =
              IF ~IsPending(new_obj, kind, scope)
              THEN call @@ [pc |-> "return", ret |-> new_obj]
              ELSE IF kind \notin DefaultRegistry
              THEN call @@ [pc |-> "done", exc |-> "KeyError"]
              ELSE call @@ [pc |-> "verifier"]]
    /\ UNCHANGED <<reg, storage, last, hist, shist, nmerge, occFrame>>

\* result = verifier(scoped_value, scope)
WVerifier(w, result) ==
    /\ worker[w].pc = "verifier"
    /\ worker' = [worker EXCEPT ![w] =
           [obj |-> @.obj, kind |-> @.kind, scope |-> @.scope,
            verifier_id |-> @.verifier_id, verifier_called |-> TRUE,
            pc |-> "append", result |-> result]]
    /\ UNCHANGED <<reg, storage, last, hist, shist, nmerge, occFrame>>

\* prev_hash is read from the copy, the record is appended to the copy, the
\* obligation is removed from the copy on accept: what discharge returns for
\* the object it was called with.  Nothing is compared with the caller's
\* object and nothing is retried.
WAppend(w, now) ==
    /\ worker[w].pc = "append"
    /\ LET c == worker[w]
           out == discharge(c.obj, c.kind, c.scope, DefaultRegistry,
                            c.verifier_id, c.result, now)
       IN worker' = [worker EXCEPT ![w] =
              [obj |-> c.obj, kind |-> c.kind, scope |-> c.scope,
               verifier_id |-> c.verifier_id, verifier_called |-> TRUE,
               result |-> c.result, pc |-> "return", ret |-> out.obj]]
    /\ UNCHANGED <<reg, storage, last, hist, shist, nmerge, occFrame>>

\* The caller's reg = <returned object>
WReturn(w) ==
    /\ worker[w].pc = "return"
    /\ reg' = worker[w].ret
    /\ worker' = [worker EXCEPT ![w] =
           [x \in DOMAIN @ |-> IF x = "pc" THEN "done" ELSE @[x]]]
    /\ UNCHANGED <<storage, last, hist, shist, nmerge, occFrame>>

NextOCC ==
    \/ \E w \in Workers, kind \in ArgKinds, scope \in ArgScopes,
          verifier_id \in VerifierIds : WCall(w, kind, scope, verifier_id)
    \/ \E w \in Workers, result \in Results : WVerifier(w, result)
    \/ \E w \in Workers, now \in Times : WAppend(w, now)
    \/ \E w \in Workers : WReturn(w)

SpecOCC == InitOCC /\ [][NextOCC]_vars

\* ------------------------------------------- the objects by identity
\* Python holds lists and dicts by reference.  heap maps an address to what
\* is allocated there: a ChavaObject (its value, and the addresses of its
\* obligations list and of its evidence list), a list of obligation tuples,
\* a list of addresses of evidence dicts, or an evidence dict.  Values and
\* tuples are never written to by the library and are held by value.  A list
\* that only lives inside one call (the argument of the constructor's own
\* comprehension, retrieve's temp_obj) is not allocated.
ListCell(items) == [c |-> "list", items |-> items]
DictCell(d) == [c |-> "dict", d |-> d]
ObjCell(value, obligations, evidence) ==
    [c |-> "ChavaObject", value |-> value,
     obligations |-> obligations, evidence |-> evidence]

Alloc(h, cell) == Append(h, cell)

\* obj.obligations, obj.evidence and obj as the values they hold now
HObligations(h, a) == h[h[a].obligations].items
HEvidence(h, a) ==
    LET l == h[h[a].evidence].items IN [i \in 1..Len(l) |-> h[l[i]].d]
HObject(h, a) == ChavaObject(h[a].value, HObligations(h, a), HEvidence(h, a))

\* ChavaObject.__init__: a new list of the obligations, the evidence list
\* it is given.
HChavaObject(h, value, obligations, evidence) ==
    LET h1 == Alloc(h, ListCell(obligations))
    IN [heap |-> Alloc(h1, ObjCell(value, Len(h1), evidence)),
        ret |-> Len(h1) + 1]

\* A copy that keeps the evidence list of the original
HCopyShallow(h, a) ==
    HChavaObject(h, h[a].value, HObligations(h, a), h[a].evidence)
\* ChavaObject.copy: [dict(e) for e in self.evidence] is a new list of new
\* dicts.
HCopy(h, a) ==
    LET src == h[h[a].evidence].items
        n == Len(src)
        h1 == h \o [i \in 1..n |-> DictCell(h[src[i]].d)]
        h2 == Alloc(h1, ListCell([i \in 1..n |-> Len(h) + i]))
    IN HChavaObject(h2, h[a].value, HObligations(h, a), Len(h2))

\* A call that has appended its record when the exception leaves it
RaisedAfterAppend(h0, new_obj) ==
    LET h1 == Alloc(h0, DictCell([result |-> Raises]))
    IN [h1 EXCEPT ![h1[new_obj].evidence].items = Append(@, Len(h1))]
\* The heap when an exception leaves discharge: get_verifier and the
\* verifier are called after the copy and before anything is written.
Raised(h0, new_obj) == h0

\* discharge: everything it writes, it writes through new_obj.
HDischargeCall(h, a, kind, scope, registry, verifier_id, result, now) ==
    LET c == HCopy(h, a)
        new_obj == c.ret
        h0 == c.heap
        target_obligation == <<kind, scope>>
    IN
    IF ~Contains(HObligations(h0, new_obj), target_obligation)
    THEN [exc |-> "none", heap |-> h0, ret |-> new_obj, verifier_called |-> FALSE]
    ELSE IF kind \notin registry
    THEN [exc |-> "KeyError", heap |-> Raised(h0, new_obj), verifier_called |-> FALSE]
    ELSE IF result = Raises
    THEN [exc |-> "VerifierException", heap |-> Raised(h0, new_obj),
          verifier_called |-> TRUE]
    ELSE
      LET out == discharge(HObject(h0, new_obj), kind, scope, registry,
                           verifier_id, result, now).obj
          evidence_record == out.evidence[Len(out.evidence)]
          h1 == Alloc(h0, DictCell(evidence_record))
          \* new_obj.evidence.append(evidence_record)
          h2 == [h1 EXCEPT ![h1[new_obj].evidence].items = Append(@, Len(h1))]
          \* new_obj.obligations.remove(target_obligation)
          h3 == [h2 EXCEPT ![h2[new_obj].obligations].items =
                               Remaining(@, target_obligation, result)]
      IN [exc |-> "none", heap |-> h3, ret |-> new_obj, verifier_called |-> TRUE]

\* project: evidence=obj.evidence when the path does not resolve,
\* evidence=obj.evidence.copy() (a new list of the same dicts) when it does.
HProjectCall(h, a, path) ==
    LET out == project(HObject(h, a), path)
    IN IF resolve_pointer(h[a].value, path) = Unresolved
       THEN HChavaObject(h, out.value, out.obligations, h[a].evidence)
       ELSE LET h1 == Alloc(h, ListCell(h[h[a].evidence].items))
            IN HChavaObject(h1, out.value, out.obligations, Len(h1))

\* merge: obj1.evidence + obj2.evidence is a new list of the same dicts.
HMergeCall(h, a, b) ==
    LET out == merge(HObject(h, a), HObject(h, b))
        h1 == Alloc(h, ListCell(h[h[a].evidence].items \o h[h[b].evidence].items))
    IN HChavaObject(h1, out.value, out.obligations, Len(h1))

\* self.storage as the values it holds now
HStorageDict(h, hs) ==
    [id \in DOMAIN hs |->
        IF hs[id] = NotStored THEN NotStored
        ELSE [stored_data |-> hs[id].stored_data,
              obligations |-> h[hs[id].obligations].items,
              evidence |-> LET l == h[hs[id].evidence].items
                           IN [i \in 1..Len(l) |-> h[l[i]].d]]]

\* retrieve: the returned object gets a new obligations list and the stored
\* evidence list itself.
HRetrieveCall(h, hs, obj_id) ==
    LET out == retrieve(HStorageDict(h, hs), obj_id)
    IN IF out.exc # "none" THEN [exc |-> out.exc, heap |-> h]
       ELSE HChavaObject(h, out.obj.value, out.obj.obligations, hs[obj_id].evidence)
                @@ [exc |-> "none"]

\* The objects the caller holds
HObjects(h) == {a \in 1..Len(h) : h[a].c = "ChavaObject"}
HeapObjects == {o \in StoredObjects : o.obligations # <<>>}
HeapKinds == {"sql_safe", "pii_clean"}
HeapResults == {"accept", "reject"}
HeapPaths == {<<"/", "a">>, <<"/", "c">>}

\* ChavaObject(value, obligations, []) by the caller
HCreate(o) ==
    /\ Len(heap) + 3 <= MaxHeap
    /\ LET h1 == Alloc(heap, ListCell(<<>>))
           new == HChavaObject(h1, o.value, o.obligations, Len(h1))
       IN /\ heap' = new.heap
          /\ hlast' = [op |-> "create", out |-> new.ret]
    /\ UNCHANGED <<hstorage, reg, storage, last, hist, shist, nmerge, heapFrame>>

HDischarge(a, kind, scope, verifier_id, result, now) ==
    /\ a \in HObjects(heap)
    /\ LET r == HDischargeCall(heap, a, kind, scope, DefaultRegistry,
                               verifier_id, result, now)
       IN /\ ~r.verifier_called => result = "accept"
          /\ Len(r.heap) <= MaxHeap
          /\ heap' = r.heap
          /\ hlast' = IF r.exc # "none"
                      THEN [op |-> "discharge", in |-> a, exc |-> r.exc,
                            kind |-> kind, scope |-> scope,
                            result |-> IF r.verifier_called THEN result ELSE "none"]
                      ELSE [op |-> "discharge", in |-> a, exc |-> "none",
                            kind |-> kind, scope |-> scope,
                            result |-> IF r.verifier_called THEN result ELSE "none",
                            out |-> r.ret]
    /\ UNCHANGED <<hstorage, reg, storage, last, hist, shist, nmerge, heapFrame>>

HProject(a, path) ==
    /\ a \in HObjects(heap)
    /\ LET r == HProjectCall(heap, a, path)
       IN /\ Len(r.heap) <= MaxHeap
          /\ heap' = r.heap
          /\ hlast' = [op |-> "project", in |-> a, out |-> r.ret]
    /\ UNCHANGED <<hstorage, reg, storage, last, hist, shist, nmerge, heapFrame>>

HMerge(a, b) ==
    /\ a \in HObjects(heap)
    /\ b \in HObjects(heap)
    /\ LET r == HMergeCall(heap, a, b)
       IN /\ Len(r.heap) <= MaxHeap
          /\ heap' = r.heap
          /\ hlast' = [op |-> "merge", in |-> a, in2 |-> b, out |-> r.ret]
    /\ UNCHANGED <<hstorage, reg, storage, last, hist, shist, nmerge, heapFrame>>

\* store: self.storage[obj_id] = (stored_data, obj.obligations, obj.evidence)
HStore(obj_id, a, nonce) ==
    /\ a \in HObjects(heap)
    /\ hstorage' = [hstorage EXCEPT ![obj_id] =
           [stored_data |-> StoreRecord(HObject(heap, a), nonce).stored_data,
            obligations |-> heap[a].obligations,
            evidence |-> heap[a].evidence]]
    /\ hlast' = [op |-> "store", in |-> a]
    /\ UNCHANGED <<heap, reg, storage, last, hist, shist, nmerge, heapFrame>>

HRetrieve(obj_id) ==
    /\ LET r == HRetrieveCall(heap, hstorage, obj_id)
       IN /\ Len(r.heap) <= MaxHeap
          /\ heap' = r.heap
          /\ hlast' = IF r.exc # "none"
                      THEN [op |-> "retrieve", exc |-> r.exc]
                      ELSE [op |-> "retrieve", exc |-> "none", out |-> r.ret]
    /\ UNCHANGED <<hstorage, reg, storage, last, hist, shist, nmerge, heapFrame>>

NextHeap ==
    \/ \E o \in HeapObjects : HCreate(o)
    \/ \E a \in HObjects(heap), kind \in HeapKinds, scope \in ArgScopes,
          verifier_id \in VerifierIds, result \in HeapResults, now \in Times :
          HDischarge(a, kind, scope, verifier_id, result, now)
    \/ \E a \in HObjects(heap), path \in HeapPaths : HProject(a, path)
    \/ \E a, b \in HObjects(heap) : HMerge(a, b)
    \/ \E obj_id \in ObjIds, a \in HObjects(heap), nonce \in Nonces :
          HStore(obj_id, a, nonce)
    \/ \E obj_id \in ObjIds : HRetrieve(obj_id)

SpecHeap == Init /\ [][NextHeap]_vars

\* ------------------------------------ the discharges that do not complete
\* Objects with a kind no verifier is registered for, and verifiers that
\* raise.
UnregisteredKind == "custom"
FailObjects ==
    { ChavaObject(VStr(SqlText), << <<UnregisteredKind, EmptyStr>> >>, <<>>),
      ChavaObject(Record1, << <<"sql_safe", EmptyStr>>, <<UnregisteredKind, <<"/", "a">> >> >>,
                  <<>>),
      ChavaObject(VStr(SqlText), << <<"sql_safe", EmptyStr>>, <<"sql_safe", EmptyStr>> >>,
                  <<>>) }

NextFail ==
    \/ \E o \in FailObjects : HCreate(o)
    \/ \E a \in HObjects(heap), kind \in {"sql_safe", UnregisteredKind},
          scope \in ArgScopes, verifier_id \in VerifierIds,
          result \in {"accept", "reject", Raises}, now \in Times :
          HDischarge(a, kind, scope, verifier_id, result, now)

SpecFail == Init /\ [][NextFail]_vars

\* ------------------------------------------------ the evidence functions
\* has_conflict and verify_evidence_chain on evidence lists of every make:
\* records appended as discharge appends them, records of another list put
\* behind them (prev_hash ""), records without a kind, and one record
\* changed afterwards without recomputing any hash.
LogResults == {"accept", "reject"}
\* The kinds of the records appended, and the kinds a record can be changed to
AppendKinds == {"sql_safe", PyNone}
LogKinds == {"sql_safe", "pii_clean", PyNone}
LogScopes == {EmptyStr, <<"/", "a">>}
Forged == <<"forged">>

\* The dict with record[field] = value; the kind None is the absent key.
Put(record, field, value) ==
    IF field = "kind" /\ value = PyNone
    THEN [x \in DOMAIN record \ {"kind"} |-> record[x]]
    ELSE [x \in DOMAIN record \union {field} |->
             IF x = field THEN value ELSE record[x]]

\* The record discharge builds, with its hash
EvidenceRecord(verifier_id, result, now, prev_hash, kind, scope) ==
    LET evidence_record ==
            [verifier_id |-> verifier_id, result |-> result, timestamp |-> now,
             prev_hash |-> prev_hash, kind |-> kind, scope |-> scope]
    IN Put([x \in DOMAIN evidence_record \union {"hash"} |->
               IF x = "hash" THEN compute_evidence_hash(evidence_record)
               ELSE evidence_record[x]],
           "kind", kind)

\* A record is appended behind the tail of the list (linked = TRUE, as
\* discharge links it) or as the first record of another list.
LogAppend(verifier_id, result, now, kind, linked) ==
    /\ Len(elog) < MaxLog
    /\ linked \/ elog # <<>>
    /\ elog' = Append(elog,
           EvidenceRecord(verifier_id, result, now,
                          IF linked THEN PrevHash(elog) ELSE EmptyStr,
                          kind, EmptyStr))
    /\ verdict' = Verdict(elog')
    /\ UNCHANGED <<tamper, reg, storage, last, hist, shist, nmerge, logFrame>>

\* The values a field of a stored record can be changed to
TamperValues(record, field) ==
    CASE field = "verifier_id" -> {"v1", "v2"}
      [] field = "result" -> Results
      [] field = "timestamp" -> {record.timestamp + 1}
      [] field = "prev_hash" -> {EmptyStr, Forged}
      [] field = "hash" -> {Forged}
      [] field = "kind" -> LogKinds
      [] field = "scope" -> LogScopes

TamperFields ==
    {"verifier_id", "result", "timestamp", "prev_hash", "hash", "kind", "scope"}

\* evidence[i][field] = value, and nothing else
LogTamper(i, field, value) ==
    /\ tamper = NoTamper
    /\ i \in 1..Len(elog)
    /\ value \in TamperValues(elog[i], field)
    /\ value # (IF field = "kind" THEN GetKind(elog[i]) ELSE elog[i][field])
    /\ elog' = [elog EXCEPT ![i] = Put(@, field, value)]
    /\ verdict' = Verdict(elog')
    /\ tamper' = [field |-> field, i |-> i, before |-> verdict]
    /\ UNCHANGED <<reg, storage, last, hist, shist, nmerge, logFrame>>

NextLog ==
    \/ \E verifier_id \in VerifierIds, result \in LogResults, now \in Times,
          kind \in AppendKinds, linked \in BOOLEAN :
          LogAppend(verifier_id, result, now, kind, linked)
    \/ \E i \in 1..Len(elog), field \in TamperFields :
          \E value \in TamperValues(elog[i], field) : LogTamper(i, field, value)

SpecLog == Init /\ [][NextLog]_vars

\* ------------------------------------------------------------ derive_key
\* derive_key on two obligation lists that grow pair by pair, in every order
\* and with repeated pairs.
KeyKinds == {"sql_safe", "pii_clean"}
KeyScopes == {EmptyStr, <<"/", "a">>}

KeyAppend(side, kind, scope) ==
    /\ Len(IF side = "a" THEN oblA ELSE oblB) < MaxKeyList
    /\ oblA' = IF side = "a" THEN Append(oblA, <<kind, scope>>) ELSE oblA
    /\ oblB' = IF side = "b" THEN Append(oblB, <<kind, scope>>) ELSE oblB
    /\ keys' = Keys(oblA', oblB')
    /\ UNCHANGED <<reg, storage, last, hist, shist, nmerge, keyFrame>>

NextKey ==
    \E side \in {"a", "b"}, kind \in KeyKinds, scope \in KeyScopes :
        KeyAppend(side, kind, scope)

SpecKey == Init /\ [][NextKey]_vars

\* ------------------------------------------- the JSON wire format
\* The objects serialised: str, dict, list, None and bytes values,
\* obligations with a repeated pair.
JsonObjects ==
    { ChavaObject(VStr(SqlText), << <<"sql_safe", EmptyStr>> >>, <<>>),
      ChavaObject(Record1, << <<"pii_clean", <<"/", "a">> >>, <<"sql_safe", EmptyStr>>,
                              <<"pii_clean", <<"/", "a">> >> >>, <<>>),
      ChavaObject(VArr(<<VNull, VNum(2), VArr(<<>>), VObj(<<>>)>>),
                  << <<"schema_ok", EmptyStr>>, <<"schema_ok", EmptyStr>> >>, <<>>),
      ChavaObject(VNull, <<>>, <<>>),
      ChavaObject(VBytes(SqlText), << <<"sql_safe", EmptyStr>> >>, <<>>) }

\* json_str = reg.to_json()
ToJson ==
    /\ reg # NoObj
    /\ wire' = [of |-> reg, out |-> to_json(reg), back |-> NoObj]
    /\ UNCHANGED jsonFrame

\* ChavaObject.from_json(json_str)
FromJson ==
    /\ wire.of # NoObj
    /\ wire.out.exc = "none"
    /\ wire.back = NoObj
    /\ wire' = [wire EXCEPT !.back = from_json(wire.out.json_str)]
    /\ UNCHANGED jsonFrame

NextJson ==
    \/ \E o \in JsonObjects : Create(o)
    \/ \E kind \in DefaultRegistry, scope \in ArgScopes,
          verifier_id \in VerifierIds, result \in {"accept", "reject"}, now \in Times :
          Discharge(kind, scope, verifier_id, result, now)
    \/ ToJson
    \/ FromJson

SpecJson == Init /\ [][NextJson]_vars

\* ------------------------------------------- the persistent store
\* The objects stored: dict, str, list and bytes values; distinct
\* obligations, none, and a repeated pair.
SqlObjects ==
    { ChavaObject(Record1, << <<"pii_clean", <<"/", "a">> >>, <<"sql_safe", EmptyStr>> >>, <<>>),
      ChavaObject(VArr(<<VNull, VNum(2), VStr(SqlText)>>), <<>>, <<>>),
      ChavaObject(VStr(SqlText), << <<"sql_safe", EmptyStr>>, <<"sql_safe", EmptyStr>> >>, <<>>),
      ChavaObject(VBytes(SqlText), << <<"pii_clean", EmptyStr>> >>, <<>>) }

\* store.store(obj_id, reg)
SqlStore(obj_id, nonce) ==
    /\ reg # NoObj
    /\ dblock = NoWriter
    /\ LET r == sqlite_store(db, obj_id, reg, nonce)
       IN /\ db' = r.file
          /\ sqlast' = [op |-> "store", obj_id |-> obj_id, in |-> reg, exc |-> r.exc,
                        inst |-> inst]
          /\ sqhist' = IF r.exc = "none"
                       THEN [sqhist EXCEPT ![obj_id] =
                                [obj |-> reg, nonce |-> nonce, inst |-> inst, by |-> "caller",
                                 shrunk |-> IF @ = NoCommit THEN FALSE
                                            ELSE Len(@.obj.obligations) > Len(reg.obligations)]]
                       ELSE sqhist
    /\ UNCHANGED <<dblock, conn, inst, coreVars, sqlFrame>>

\* reg = store.retrieve(obj_id); a call that raises leaves reg as it was.
SqlRetrieve(obj_id) ==
    LET out == sqlite_retrieve(db, obj_id)
    IN /\ reg' = IF out.exc = "none" THEN out.obj ELSE reg
       /\ hist' = IF out.exc = "none" THEN NoHist ELSE hist
       /\ sqlast' = [op |-> "retrieve", obj_id |-> obj_id, out |-> out, inst |-> inst]
       /\ UNCHANGED <<db, dblock, conn, sqhist, inst, storage, last, shist, nmerge, sqlFrame>>

\* store.query_by_obligation(kind) and store.query_by_obligation(kind, scope)
SqlQuery(kind, scope) ==
    /\ sqlast' = [op |-> "query", kind |-> kind, scope |-> scope,
                  out |-> query_by_obligation(db, kind, scope)]
    /\ UNCHANGED <<db, dblock, conn, sqhist, inst, coreVars, sqlFrame>>

\* store = ChavaSQLiteStorage(db_path, kms): a new instance on the same file
SqlOpen ==
    /\ inst < MaxOpens
    /\ dblock = NoWriter
    /\ inst' = inst + 1
    /\ db' = init_database(db)
    /\ sqlast' = [op |-> "open"]
    /\ UNCHANGED <<dblock, conn, sqhist, coreVars, sqlFrame>>

NextSql ==
    \/ \E o \in SqlObjects : Create(o)
    \/ \E kind \in {"sql_safe", "pii_clean"}, scope \in ArgScopes,
          verifier_id \in VerifierIds, result \in {"accept", "reject"}, now \in Times :
          /\ reg # NoObj
          /\ Contains(reg.obligations, <<kind, scope>>)
          /\ result = "reject" => kind = "pii_clean"
          /\ Discharge(kind, scope, verifier_id, result, now)
    \/ \E nonce \in Nonces : SqlStore("id1", nonce)
    \/ \E obj_id \in SqlIds : SqlRetrieve(obj_id)
    \/ SqlOpen

SpecSql == Init /\ [][NextSql]_vars

\* The obligation index: objects stored under two ids, stored again after
\* discharges, and queried.
IndexObjects ==
    { ChavaObject(Record1, << <<"pii_clean", <<"/", "a">> >>, <<"sql_safe", EmptyStr>> >>, <<>>),
      ChavaObject(VStr(SqlText), << <<"sql_safe", <<"/", "a">> >> >>, <<>>) }

NextSqlIndex ==
    \/ \E o \in IndexObjects : Create(o)
    \/ \E kind \in {"sql_safe", "pii_clean"}, scope \in ArgScopes,
          verifier_id \in VerifierIds, now \in Times :
          /\ reg # NoObj
          /\ Contains(reg.obligations, <<kind, scope>>)
          /\ Discharge(kind, scope, verifier_id, "accept", now)
    \/ \E obj_id \in SqlIds, nonce \in Nonces : SqlStore(obj_id, nonce)
    \/ \E obj_id \in SqlIds : SqlRetrieve(obj_id)
    \/ \E kind \in {"sql_safe", "pii_clean"}, scope \in ArgScopes \cup {AnyScope} :
          SqlQuery(kind, scope)

SpecSqlIndex == Init /\ [][NextSqlIndex]_vars

\* --------------------------------- concurrent writers of one obj_id
\* batch_discharge by two callers: each retrieves, discharges with scope ""
\* and stores back; the statements of the two stores interleave as far as
\* the write lock of the file lets them.
TxObjects ==
    { ChavaObject(Record1, << <<"sql_safe", EmptyStr>>, <<"pii_clean", EmptyStr>> >>, <<>>) }

\* obj = self.retrieve(obj_id)
BRetrieve(w, obj_id) ==
    /\ conn[w].pc = "idle"
    /\ LET out == sqlite_retrieve(db, obj_id)
       IN conn' = [conn EXCEPT ![w] =
                     IF out.exc # "none" THEN [pc |-> "failed", exc |-> out.exc]
                     ELSE [pc |-> "retrieved", obj_id |-> obj_id, read |-> out.obj]]
    /\ UNCHANGED <<db, dblock, sqlast, sqhist, inst, coreVars, sqlFrame>>

\* discharged_obj = discharge(obj, kind, "", registry, verifier_id)
BDischarge(w, kind, result, now) ==
    /\ conn[w].pc = "retrieved"
    /\ Len(conn[w].read.evidence) < MaxEvidence
    /\ LET out == discharge(conn[w].read, kind, EmptyStr, DefaultRegistry, w, result, now)
       IN conn' = [conn EXCEPT ![w] =
                     [pc |-> "discharged", obj_id |-> @.obj_id, read |-> @.read,
                      obj |-> out.obj]]
    /\ UNCHANGED <<db, dblock, sqlast, sqhist, inst, coreVars, sqlFrame>>

\* self.store: the first statement opens the transaction and takes the write
\* lock of the file.
BInsertObject(w, nonce) ==
    /\ conn[w].pc = "discharged"
    /\ dblock = NoWriter
    /\ dblock' = w
    /\ LET tables == InsertOrReplaceObject(db, conn[w].obj_id,
                                           ObjectRow(conn[w].obj, nonce))
       IN /\ conn' = [conn EXCEPT ![w] =
                        [pc |-> "inserted", obj_id |-> @.obj_id, read |-> @.read,
                         obj |-> @.obj, nonce |-> nonce, tables |-> tables]]
          /\ db' = AfterStatement(db, tables)
    /\ UNCHANGED <<sqlast, sqhist, inst, coreVars, sqlFrame>>

\* The lock is held by another connection until the timeout: the statement
\* raises OperationalError and batch_discharge records the failure.
BBusy(w) ==
    /\ conn[w].pc = "discharged"
    /\ dblock \notin {NoWriter, w}
    /\ conn' = [conn EXCEPT ![w] = [pc |-> "failed", exc |-> "OperationalError"]]
    /\ UNCHANGED <<db, dblock, sqlast, sqhist, inst, coreVars, sqlFrame>>

\* DELETE FROM obligation_index and the INSERTs; a statement that raises
\* ends the block and the transaction is rolled back.
BObligationIndex(w) ==
    /\ conn[w].pc = "inserted"
    /\ LET r == RebuildObligationIndex(conn[w].tables, conn[w].obj_id,
                                       conn[w].obj.obligations)
       IN IF r.exc # "none"
          THEN /\ conn' = [conn EXCEPT ![w] = [pc |-> "failed", exc |-> r.exc]]
               /\ dblock' = NoWriter
               /\ db' = db
          ELSE /\ conn' = [conn EXCEPT ![w].pc = "indexed", ![w].tables = r.tables]
               /\ dblock' = dblock
               /\ db' = AfterStatement(db, r.tables)
    /\ UNCHANGED <<sqlast, sqhist, inst, coreVars, sqlFrame>>

\* DELETE FROM evidence_index, the INSERTs and conn.commit()
BCommit(w) ==
    /\ conn[w].pc = "indexed"
    /\ db' = RebuildEvidenceIndex(conn[w].tables, conn[w].obj_id, conn[w].obj.evidence)
    /\ dblock' = NoWriter
    /\ conn' = [conn EXCEPT ![w] =
                  [pc |-> "done", obj_id |-> @.obj_id, read |-> @.read, obj |-> @.obj]]
    /\ sqhist' = [sqhist EXCEPT ![conn[w].obj_id] =
                    [obj |-> conn[w].obj, nonce |-> conn[w].nonce, inst |-> inst,
                     by |-> w,
                     shrunk |-> IF @ = NoCommit THEN FALSE
                                ELSE Len(@.obj.obligations) > Len(conn[w].obj.obligations)]]
    /\ UNCHANGED <<sqlast, inst, coreVars, sqlFrame>>

NextSqlTx ==
    \/ \E o \in TxObjects : Create(o)
    \/ \E nonce \in Nonces : SqlStore("id1", nonce)
    \/ \E w \in Workers : BRetrieve(w, "id1")
    \/ \E w \in Workers, kind \in {"sql_safe", "pii_clean"},
          result \in {"accept", "reject"}, now \in Times : BDischarge(w, kind, result, now)
    \/ \E w \in Workers, nonce \in Nonces : BInsertObject(w, nonce)
    \/ \E w \in Workers : BBusy(w)
    \/ \E w \in Workers : BObligationIndex(w)
    \/ \E w \in Workers : BCommit(w)

SpecSqlTx == Init /\ [][NextSqlTx]_vars

\* ------------------------------- discharges in memory and through the store
\* The objects created: distinct values; distinct obligations, and a pair
\* held twice.
LedgerObjects ==
    { ChavaObject(Record1, << <<"sql_safe", EmptyStr>>, <<"pii_clean", EmptyStr>> >>, <<>>),
      ChavaObject(VStr(SqlText), << <<"pii_clean", EmptyStr>>, <<"pii_clean", EmptyStr>>,
                                    <<"sql_safe", EmptyStr>> >>, <<>>) }

\* A caller that discharges the object it holds and stores it, and then
\* batch_discharge callers that retrieve, discharge and store.
NextLedger ==
    \/ \E o \in LedgerObjects : Create(o)
    \/ \E kind \in {"sql_safe", "pii_clean"}, verifier_id \in VerifierIds,
          result \in Results, now \in Times :
          /\ sqhist["id1"] = NoCommit
          /\ Discharge(kind, EmptyStr, verifier_id, result, now)
    \/ \E nonce \in Nonces : sqhist["id1"] = NoCommit /\ SqlStore("id1", nonce)
    \/ \E w \in Workers : BRetrieve(w, "id1")
    \/ \E w \in Workers, kind \in {"sql_safe", "pii_clean"},
          result \in {"accept", "reject"}, now \in Times : BDischarge(w, kind, result, now)
    \/ \E w \in Workers, nonce \in Nonces : BInsertObject(w, nonce)
    \/ \E w \in Workers : BBusy(w)
    \/ \E w \in Workers : BObligationIndex(w)
    \/ \E w \in Workers : BCommit(w)

SpecLedger == Init /\ [][NextLedger]_vars

\* ------------------------------------------- one object, discharges only
\* The objects created: one obligation; two of one kind with different
\* scopes; a pair held twice and one of another kind.
SingleObjects ==
    { ChavaObject(VStr(SqlText), << <<"sql_safe", EmptyStr>> >>, <<>>),
      ChavaObject(Record1, << <<"pii_clean", <<"/", "a">> >>, <<"pii_clean", EmptyStr>> >>, <<>>),
      ChavaObject(Record1, << <<"pii_clean", <<"/", "a">> >>, <<"sql_safe", EmptyStr>>,
                              <<"pii_clean", <<"/", "a">> >> >>, <<>>) }

\* An object is created once; every later step discharges it and carries its
\* evidence forward.
NextSingle ==
    \/ \E o \in SingleObjects : reg = NoObj /\ Create(o)
    \/ \E kind \in ArgKinds, scope \in ArgScopes, verifier_id \in VerifierIds,
          result \in Results, now \in Times :
          Discharge(kind, scope, verifier_id, result, now)

SpecSingle == Init /\ [][NextSingle]_vars

\* ------------------------------- one object, discharges and projections
\* The paths projected: the whole document, members that exist, one that
\* does not, and a pointer without its leading '/'.
SinglePaths == {EmptyStr, <<"/", "a">>, <<"/", "b">>, <<"/", "c">>, <<"a">>}

\* An object is created once; every later step discharges or projects it.
NextPath ==
    \/ \E o \in SingleObjects : reg = NoObj /\ Create(o)
    \/ \E kind \in ArgKinds, scope \in ArgScopes, verifier_id \in VerifierIds,
          result \in Results, now \in Times :
          Discharge(kind, scope, verifier_id, result, now)
    \/ \E path \in SinglePaths : Project(path)

SpecPath == Init /\ [][NextPath]_vars

\* ------------------------- projections in a row, projections of a merge
\* Objects on a nested value, with scopes at, above, below and beside the
\* paths, and scopes with an empty segment ("/a//b", "/a/", "/a/b/", "/",
\* "//a").
ComposeObjects ==
    { ChavaObject(Nested, << <<"pii_clean", <<"/", "a", "/", "b">> >>,
                             <<"sql_safe", EmptyStr>> >>, <<>>),
      ChavaObject(Nested, << <<"pii_clean", <<"/", "a">> >>,
                             <<"sql_safe", <<"/", "a", "/", "b", "/", "0">> >> >>, <<>>),
      ChavaObject(Nested, << <<"pii_clean", <<"/", "b">> >>,
                             <<"sql_safe", <<"/", "a", "/", "b", "b">> >> >>, <<>>),
      ChavaObject(Nested, << <<"pii_clean", <<"/", "a", "/", "/", "b">> >>,
                             <<"sql_safe", <<"/", "a", "b">> >> >>, <<>>),
      ChavaObject(Nested, << <<"pii_clean", <<"/", "a", "/">> >>,
                             <<"sql_safe", <<"/", "a", "/", "b", "/">> >> >>, <<>>),
      ChavaObject(Nested, << <<"pii_clean", <<"/">> >>,
                             <<"sql_safe", <<"/", "/", "a">> >> >>, <<>>) }
ComposePaths ==
    { <<"/", "a">>, <<"/", "b">>, <<"/", "a", "/", "b">>, <<"/", "0">>,
      <<"/", "b", "/", "0">>, <<"/", "c">> }

NextCompose ==
    \/ \E o \in ComposeObjects : Create(o)
    \/ \E kind \in {"sql_safe", "pii_clean"}, scope \in ArgScopes,
          verifier_id \in VerifierIds, result \in {"accept", "reject"}, now \in Times :
          Discharge(kind, scope, verifier_id, result, now)
    \/ \E path \in ComposePaths : Project(path)
    \/ \E a \in MergeOperands \cup {reg}, b \in MergeOperands \cup {reg} :
          reg \in {a, b} /\ reg # NoObj /\ Merge(a, b)

SpecCompose == Init /\ [][NextCompose]_vars

\* ------------------------------------------------- the audit query
\* The verifiers that discharge, the times of their verdicts and the bounds
\* a query gives
AuditVerifiers == {"v1", "v2"}
AuditTimes == {1, 2}
AuditStarts == {NoTime, SomeTime(2)}
AuditEnds == {NoTime, SomeTime(1)}

\* store.query_by_verifier(verifier_id, start_time, end_time)
SqlQueryVerifier(verifier_id, start_time, end_time) ==
    /\ sqlast' = [op |-> "query_by_verifier", verifier_id |-> verifier_id,
                  start_time |-> start_time, end_time |-> end_time,
                  out |-> query_by_verifier(db, verifier_id, start_time, end_time)]
    /\ UNCHANGED <<db, dblock, conn, sqhist, inst, coreVars, sqlFrame>>

\* Objects discharged by two verifiers at two times, stored and queried.
NextAudit ==
    \/ \E o \in TxObjects : Create(o)
    \/ \E kind \in {"sql_safe", "pii_clean"}, verifier_id \in AuditVerifiers,
          now \in AuditTimes : Discharge(kind, EmptyStr, verifier_id, "accept", now)
    \/ \E nonce \in Nonces : SqlStore("id1", nonce)
    \/ \E verifier_id \in AuditVerifiers, start_time \in AuditStarts, end_time \in AuditEnds :
          SqlQueryVerifier(verifier_id, start_time, end_time)

SpecAudit == Init /\ [][NextAudit]_vars

\* ------------------------------------------------ the pointer index
TrieIds == {"id1", "id2"}
TrieScopes == {EmptyStr, <<"/", "a">>, <<"/", "a", "/", "b">>, <<"/", "b">>}
TriePaths == TrieScopes \cup {<<"/", "a", "/", "c">>, <<"/", "c">>}
\* The obligation lists given to add: one or two obligations
TrieObligations ==
    {<< <<"pii_clean", s>> >> : s \in TrieScopes}
    \cup {<< <<"sql_safe", EmptyStr>>, <<"pii_clean", s>> >> : s \in TrieScopes \ {EmptyStr}}

\* index.add(obj_id, obligations)
TrieAdd(obj_id, obligations) ==
    /\ trie' = trie_add(trie, obj_id, obligations)
    /\ tadds' = tadds \cup {<<obj_id, obligations[i][2]>> : i \in 1..Len(obligations)}
    /\ trieq' = [op |-> "add"]
    /\ UNCHANGED trieFrame

\* index.get_objects_at_path(path)
TrieGet(path) ==
    /\ trieq' = [op |-> "get", path |-> path, out |-> get_objects_at_path(trie, path)]
    /\ UNCHANGED <<trie, tadds, trieFrame>>

NextTrie ==
    \/ \E obj_id \in TrieIds, obligations \in TrieObligations : TrieAdd(obj_id, obligations)
    \/ \E path \in TriePaths : TrieGet(path)

SpecTrie == Init /\ [][NextTrie]_vars

\* ----------------------------------------------- the inverted index
\* The obligation lists given to add: kinds of one and of two obligations,
\* with different scopes and with a pair held twice.
KindObligations ==
    { << <<"sql_safe", EmptyStr>>, <<"pii_clean", <<"/", "a">> >> >>,
      << <<"sql_safe", EmptyStr>> >>,
      << <<"pii_clean", <<"/", "a">> >>, <<"pii_clean", EmptyStr>> >>,
      << <<"schema_ok", EmptyStr>>, <<"schema_ok", EmptyStr>> >> }

\* index.add(obj_id, obligations), once per obj_id
KindAdd(obj_id, obligations) ==
    /\ oblleft[obj_id] = NotAdded
    /\ oblindex' = inverted_add(oblindex, obj_id, obligations)
    /\ oblleft' = [oblleft EXCEPT ![obj_id] = obligations]
    /\ oblq' = [op |-> "add", obj_id |-> obj_id]
    /\ UNCHANGED kindFrame

\* index.remove_obligation(obj_id, kind, scope) for a pair the object was
\* added with and that has not been removed
KindRemove(obj_id, kind, scope) ==
    /\ oblleft[obj_id] # NotAdded
    /\ Contains(oblleft[obj_id], <<kind, scope>>)
    /\ oblindex' = remove_obligation(oblindex, obj_id, kind, scope)
    /\ oblleft' = [oblleft EXCEPT ![obj_id] = ListRemove(@, <<kind, scope>>)]
    /\ oblq' = [op |-> "remove_obligation", obj_id |-> obj_id, kind |-> kind,
                scope |-> scope]
    /\ UNCHANGED kindFrame

\* index.get_objects_with_kind(kind)
KindGet(kind) ==
    /\ oblq' = [op |-> "get_objects_with_kind", kind |-> kind,
                out |-> get_objects_with_kind(oblindex, kind)]
    /\ UNCHANGED <<oblindex, oblleft, kindFrame>>

NextKind ==
    \/ \E obj_id \in KindIds, obligations \in KindObligations : KindAdd(obj_id, obligations)
    \/ \E obj_id \in KindIds, kind \in DefaultRegistry, scope \in ArgScopes :
          KindRemove(obj_id, kind, scope)
    \/ \E kind \in DefaultRegistry : KindGet(kind)

SpecKind == Init /\ [][NextKind]_vars

\* ----------------------------------------------- the evidence index
EvIds == {"obj1", "~obj", "~"}
EvTimes == {1, 2, 3}
\* The evidence lists given to add: one record, or two of different times
EvRecord(t) == [verifier_id |-> "v1", timestamp |-> t, result |-> "accept"]
EvLists ==
    {<<EvRecord(t)>> : t \in EvTimes}
    \cup {<<EvRecord(3), EvRecord(1)>>}

\* index.add(obj_id, evidence)
EvAdd(obj_id, evidence) ==
    /\ Len(evindex) + Len(evidence) <= MaxIndex
    /\ evindex' = evidence_index_add(evindex, obj_id, evidence)
    /\ evq' = [op |-> "add"]
    /\ UNCHANGED timeFrame

\* index.query_by_time_range(start_time, end_time)
EvQuery(start_time, end_time) ==
    /\ evq' = [op |-> "query", start_time |-> start_time, end_time |-> end_time]
                @@ query_by_time_range(evindex, start_time, end_time)
    /\ UNCHANGED <<evindex, timeFrame>>

NextTime ==
    \/ \E obj_id \in EvIds, evidence \in EvLists : EvAdd(obj_id, evidence)
    \/ \E start_time \in EvTimes, end_time \in EvTimes : EvQuery(start_time, end_time)

SpecTime == Init /\ [][NextTime]_vars

\* ------------------------------------------------ relscope on its own
\* The characters of the scopes and bases given to relscope
ScopeChars == {"/", "a", "b"}

\* relscope(scope + c, base) or relscope(scope, base + c): the callers pass
\* any two strings.
RelAppend(side, c) ==
    /\ Len(IF side = "scope" THEN rel.scope ELSE rel.base) < MaxScope
    /\ rel' = IF side = "scope"
              THEN RelOut(Append(rel.scope, c), rel.base)
              ELSE RelOut(rel.scope, Append(rel.base, c))
    /\ UNCHANGED relFrame

NextRel ==
    \E side \in {"scope", "base"}, c \in ScopeChars : RelAppend(side, c)

SpecRel == Init /\ [][NextRel]_vars

\* ================================================================ claims
\* A reject that is followed, later in the log, by an accept of the same kind
RejectThenAccept(evidence) ==
    \E i, j \in 1..Len(evidence) :
        /\ i < j
        /\ evidence[i].kind = evidence[j].kind
        /\ evidence[i].result = "reject"
        /\ evidence[j].result = "accept"

\* C1: unwrap(o) returns o.value exactly when o.obligations is empty and
\* o.evidence holds no reject followed later by an accept of the same kind;
\* in every other case it raises ObligationViolation and returns no value.
C1_UnwrapIffCleared ==
    last.op = "unwrap" =>
        IF last.in.obligations = <<>> /\ ~RejectThenAccept(last.in.evidence)
        THEN last.out = [exc |-> "none", value |-> last.in.value]
        ELSE /\ last.out.exc = "ObligationViolation"
             /\ "value" \notin DOMAIN last.out

\* An unwrap refused for the conflict alone: no obligation is left.
C1_Witness ==
    /\ last.op = "unwrap"
    /\ last.in.obligations = <<>>
    /\ last.out.exc = "ObligationViolation"

\* C2 as claimed: with verify_chain(o.evidence) false, unwrap(o) fails and
\* the retrieve of a record holding that evidence fails.
C2_NoReleaseOfBrokenChain ==
    /\ (last.op = "unwrap" /\ ~verify_evidence_chain(last.in.evidence))
           => last.out.exc # "none"
    /\ (last.op = "retrieve" /\ storage[last.obj_id] # NotStored
            /\ ~verify_evidence_chain(storage[last.obj_id].evidence))
           => last.out.exc # "none"

\* C2, amended: the retrieve of a record whose evidence does not verify
\* raises CryptographicException; unwrap does not look at the chain: on an
\* object whose evidence does not verify it still returns the value exactly
\* when the obligations are empty and the evidence is conflict-free.
C2_OnlyRetrieveChecksChain ==
    /\ (last.op = "retrieve" /\ storage[last.obj_id] # NotStored
            /\ ~verify_evidence_chain(storage[last.obj_id].evidence))
           => last.out = [exc |-> "CryptographicException"]
    /\ (last.op = "unwrap" /\ ~verify_evidence_chain(last.in.evidence))
           => (last.out.exc = "none"
                 <=> (last.in.obligations = <<>> /\ ~RejectThenAccept(last.in.evidence)))

\* A record without obligations or conflict, refused for its chain alone.
C2_Witness ==
    /\ last.op = "retrieve"
    /\ storage[last.obj_id] # NotStored
    /\ storage[last.obj_id].obligations = <<>>
    /\ ~has_conflict(storage[last.obj_id].evidence)
    /\ ~verify_evidence_chain(storage[last.obj_id].evidence)
    /\ last.out.exc = "CryptographicException"

\* C3: verify_and_release_key(o) returns a key only when o.obligations is
\* empty, the chain verifies and there is no conflict, and the key is then
\* derive_key of the empty obligations and the server secret; in every other
\* case it returns None.
C3_KeyOnlyWhenCleared ==
    last.op = "verify_and_release_key" =>
        IF /\ last.in.obligations = <<>>
           /\ verify_evidence_chain(last.in.evidence)
           /\ ~has_conflict(last.in.evidence)
        THEN last.out = derive_key(<<>>, ServerSecret) /\ last.out # NoKey
        ELSE last.out = NoKey

\* The cleared key, released for an object that was discharged.
C3_Witness ==
    /\ last.op = "verify_and_release_key"
    /\ Len(last.in.evidence) > 0
    /\ last.out = derive_key(<<>>, ServerSecret)

\* C4: retrieve(id) returns a value only if the object last stored under id
\* had empty obligations (and evidence that verifies and is conflict-free);
\* if it was stored with obligations, retrieve raises CryptographicException
\* and returns nothing.
C4_RetrieveOnlyStoredCleared ==
    (last.op = "retrieve" /\ shist[last.obj_id].obj # NoObj) =>
        LET stored == shist[last.obj_id].obj
        IN /\ last.out.exc = "none" =>
                 /\ stored.obligations = <<>>
                 /\ verify_evidence_chain(stored.evidence)
                 /\ ~has_conflict(stored.evidence)
           /\ stored.obligations # <<>> =>
                 last.out = [exc |-> "CryptographicException"]

\* An object stored again after its discharge, and then retrieved.
C4_Witness ==
    /\ last.op = "retrieve"
    /\ last.out.exc = "none"
    /\ Len(shist[last.obj_id].obj.evidence) > 0

\* list with its i-th element left out
RemoveAt(list, i) == SubSeq(list, 1, i - 1) \o SubSeq(list, i + 1, Len(list))

\* C5: for (k, s) in o.obligations (and a verifier that returns a verdict),
\* discharge appends exactly one evidence record; on accept exactly one
\* occurrence of (k, s) leaves the obligations and every other obligation,
\* further copies of (k, s) too, stays in order; on reject or conditional the
\* obligations are unchanged; no error is raised.
C5_DischargeRemovesOne ==
    (last.op = "discharge" /\ last.out.verifier_called) =>
        LET o == last.in
            target == <<last.kind, last.scope>>
        IN /\ Contains(o.obligations, target)
           /\ last.out.exc = "none"
           /\ Len(last.out.obj.evidence) = Len(o.evidence) + 1
           /\ SubSeq(last.out.obj.evidence, 1, Len(o.evidence)) = o.evidence
           /\ last.result = "accept" =>
                 \E i \in 1..Len(o.obligations) :
                     /\ o.obligations[i] = target
                     /\ last.out.obj.obligations = RemoveAt(o.obligations, i)
           /\ last.result \in {"reject", "conditional"} =>
                 last.out.obj.obligations = o.obligations

\* An accept that leaves a further copy of the discharged pair behind.
C5_Witness ==
    /\ last.op = "discharge"
    /\ last.result = "accept"
    /\ Contains(last.out.obj.obligations, <<last.kind, last.scope>>)

\* C6 as claimed: the evidence of every object made from objects created with
\* empty evidence by discharge, project and merge verifies.
C6_EveryEvidenceVerifies ==
    reg # NoObj => verify_evidence_chain(reg.evidence)

\* C6, amended: the evidence of an object made from objects created with
\* empty evidence verifies as long as no merge of two non-empty logs went
\* into it (discharge and project keep it verifying, and so does a merge with
\* an empty log); a merge of two non-empty logs does not verify, nor does
\* anything made from its result.
C6_VerifiesUnlessMergedLogs ==
    reg # NoObj => (verify_evidence_chain(reg.evidence) <=> ~hist.seam)

\* Two discharges after a merge with an empty log: a chain of two records.
C6_Witness ==
    /\ reg # NoObj
    /\ nmerge > 0
    /\ ~hist.seam
    /\ Len(reg.evidence) = 2
    /\ verify_evidence_chain(reg.evidence)

\* The workers whose verifier gave a verdict, each with a record to commit
Committers == {w \in Workers : worker[w].pc = "done" /\ worker[w].verifier_called}

\* C7: when two discharges interleave on the same object, the one that
\* commits second notices the changed tail hash and starts over, so that in
\* the end both records are in the object's evidence, in one order, with
\* intact prev_hash linkage, and neither is lost.
C7_BothRecordsKept ==
    (\A w \in Workers : worker[w].pc = "done") =>
        /\ Len(reg.evidence) = Cardinality(Committers)
        /\ verify_evidence_chain(reg.evidence)
        /\ \A w \in Committers :
              \E i \in 1..Len(reg.evidence) :
                  /\ reg.evidence[i].kind = worker[w].kind
                  /\ reg.evidence[i].scope = worker[w].scope
                  /\ reg.evidence[i].result = worker[w].result

\* C8: if (k, s) is not in o.obligations, discharge returns an object equal
\* to o in value, obligations and evidence, calls no verifier and raises
\* nothing, also for a kind without a registered verifier.
C8_DischargeOfAbsentIsNoop ==
    (last.op = "discharge" /\ ~Contains(last.in.obligations, <<last.kind, last.scope>>)) =>
        /\ last.out.exc = "none"
        /\ last.out.obj = last.in
        /\ ~last.out.verifier_called

\* The no-op on a kind that has no verifier, while the object still has
\* an obligation of another scope pending.
C8_Witness ==
    /\ last.op = "discharge"
    /\ last.kind \notin DefaultRegistry
    /\ last.in.obligations # <<>>
    /\ last.out.exc = "none"
    /\ last.out.obj = last.in

\* C9: project, merge and discharge never change the objects they are given:
\* over every call, every object held before the call has the same value,
\* the same obligations and the same evidence after it (also the argument
\* of an accepting discharge), and what the store holds under an id changes
\* only in a call of store.
C9_ArgumentsNotMutated ==
    [][/\ \A a \in HObjects(heap) : HObject(heap', a) = HObject(heap, a)
       /\ hlast'.op # "store" =>
              HStorageDict(heap', hstorage') = HStorageDict(heap, hstorage)]_vars

\* An accepting discharge has returned: its argument still has the
\* obligation and not the new record.
C9_Witness ==
    /\ hlast.op = "discharge"
    /\ hlast.exc = "none"
    /\ hlast.result = "accept"
    /\ Contains(HObligations(heap, hlast.in), <<hlast.kind, hlast.scope>>)
    /\ Len(HEvidence(heap, hlast.out)) = Len(HEvidence(heap, hlast.in)) + 1
    /\ \E id \in ObjIds :
          /\ hstorage[id] # NotStored
          /\ hstorage[id].evidence = heap[hlast.in].evidence

\* C10: an object created with empty evidence, once each of its obligations
\* has been discharged with accept (in any order), has no obligations, no
\* conflict, a chain that verifies, and unwrap returns the value it was
\* created with; before the last of these discharges unwrap fails; and the
\* record stored from the discharged object is released by retrieve.
C10_ReleasedOnceAllAccepted ==
    /\ (reg # NoObj /\ hist.orig # NoObj) =>
          LET todo == Len(hist.orig.obligations) - Len(reg.evidence)
          IN /\ todo = Len(reg.obligations)
             /\ todo = 0 =>
                   /\ ~has_conflict(reg.evidence)
                   /\ verify_evidence_chain(reg.evidence)
                   /\ last.op = "unwrap" =>
                         last.out = [exc |-> "none", value |-> hist.orig.value]
             /\ (todo > 0 /\ last.op = "unwrap") =>
                   last.out.exc = "ObligationViolation"
    /\ (last.op = "retrieve" /\ shist[last.obj_id].hist.orig # NoObj) =>
          LET stored == shist[last.obj_id].obj
              orig == shist[last.obj_id].hist.orig
          IN Len(stored.evidence) = Len(orig.obligations) =>
                /\ last.out.exc = "none"
                /\ unwrap(last.out.obj).exc = "none"
                /\ last.out.obj.evidence = stored.evidence
                /\ orig.value.t = "str" => unwrap(last.out.obj).value = orig.value

\* Two obligations accepted, the object stored again and then released.
C10_Witness ==
    /\ last.op = "retrieve"
    /\ last.out.exc = "none"
    /\ shist[last.obj_id].hist.orig # NoObj
    /\ Len(shist[last.obj_id].hist.orig.obligations) = 2
    /\ Len(last.out.obj.evidence) = 2

\* The records E can be extended by
ExtensionRecords ==
    {EvidenceRecord(verifier_id, result, now, prev_hash, kind, EmptyStr) :
        verifier_id \in VerifierIds, result \in Results, now \in Times,
        prev_hash \in {EmptyStr, PrevHash(elog)}, kind \in LogKinds}

\* C11: has_conflict(E) is true exactly when E has positions i < j whose
\* records have the same kind (records without a kind count as one kind),
\* E[i].result = "reject" and E[j].result = "accept"; neither scope nor
\* verifier_id enters, and accept before reject is no conflict.
C11_ConflictIffRejectBeforeAccept ==
    verdict.has_conflict =
        (\E i, j \in 1..Len(elog) :
            /\ i < j
            /\ ("kind" \in DOMAIN elog[i]) = ("kind" \in DOMAIN elog[j])
            /\ "kind" \in DOMAIN elog[i] => elog[i].kind = elog[j].kind
            /\ elog[i].result = "reject"
            /\ elog[j].result = "accept")

\* A reject and a later accept without kind, of different verifiers, around
\* a record of a kind: a conflict.
C11_Witness ==
    /\ Len(elog) = 3
    /\ verdict.has_conflict
    /\ "kind" \notin DOMAIN elog[1] /\ "kind" \notin DOMAIN elog[3]
    /\ "kind" \in DOMAIN elog[2]
    /\ elog[1].result = "reject" /\ elog[3].result = "accept"
    /\ elog[2].result = "accept"
    /\ elog[1].verifier_id # elog[3].verifier_id

\* C12: once has_conflict(E) is true it is true of every extension of E by
\* further records, accepts behind a reject included; and has_conflict(E) is
\* false whenever all records of each kind have the same result.
C12_ConflictMonotone ==
    /\ verdict.has_conflict =>
          \A r \in ExtensionRecords : has_conflict(Append(elog, r))
    /\ (\A i, j \in 1..Len(elog) :
            GetKind(elog[i]) = GetKind(elog[j]) => elog[i].result = elog[j].result)
          => ~verdict.has_conflict

\* A conflict (reject, accept) that a further reject of the kind has not
\* cleared.
C12_Witness ==
    /\ Len(elog) = 3
    /\ tamper = NoTamper
    /\ \A i \in 1..3 : GetKind(elog[i]) = "sql_safe"
    /\ elog[1].result = "reject"
    /\ elog[2].result = "accept"
    /\ elog[3].result = "reject"
    /\ verdict.has_conflict

\* C13: verify_chain is true of the empty list and otherwise exactly when
\* every record's hash is H(verifier_id, result, timestamp, prev_hash) of the
\* record and every record but the first has the hash of the record before
\* it as prev_hash; so a verified list in which one of these four fields of
\* one record has been changed, no hash recomputed, does not verify.
C13_ChainVerifiesIffHashedAndLinked ==
    /\ verdict.verify_chain =
          (\A i \in 1..Len(elog) :
              /\ elog[i].hash = <<elog[i].verifier_id, elog[i].result,
                                  elog[i].timestamp, elog[i].prev_hash>>
              /\ i > 1 => elog[i].prev_hash = elog[i-1].hash)
    /\ elog = <<>> => verdict.verify_chain
    /\ (/\ tamper.field \in {"verifier_id", "result", "timestamp", "prev_hash"}
        /\ tamper.before.verify_chain)
          => ~verdict.verify_chain

\* The result of the first of two linked records was changed.
C13_Witness ==
    /\ Len(elog) = 2
    /\ tamper.field = "result"
    /\ tamper.i = 1
    /\ tamper.before.verify_chain
    /\ ~verdict.verify_chain
    /\ elog[2].prev_hash = elog[1].hash

\* elog with the kind and scope of record i, or of every record, replaced
WithKindScope(evidence, at, kind, scope) ==
    [i \in 1..Len(evidence) |->
        IF i \in at THEN Put(Put(evidence[i], "kind", kind), "scope", scope)
        ELSE evidence[i]]

\* C14: kind and scope are not hashed: a list that differs from E only in
\* the kind or the scope of records gets the verdict of verify_chain that E
\* gets.
C14_KindAndScopeNotHashed ==
    \A kind \in LogKinds, scope \in LogScopes :
        \A at \in {{i} : i \in 1..Len(elog)} \union {1..Len(elog)} :
            verify_evidence_chain(WithKindScope(elog, at, kind, scope))
                = verdict.verify_chain

\* The kind of a record of a verifying list was changed, and the list
\* verifies.
C14_Witness ==
    /\ Len(elog) = 2
    /\ tamper.field = "kind"
    /\ tamper.before.verify_chain
    /\ verdict.verify_chain

\* How often x is in list
Count(list, x) == Cardinality({i \in 1..Len(list) : list[i] = x})

\* C15: under one server secret the key is a function of the multiset of
\* obligations and of nothing else: lists that are permutations of each
\* other get the same key, a list always gets the same key, and lists that
\* differ as multisets of (kind, scope) get different keys.
C15_KeyOfObligationMultiset ==
    (keys.a = keys.b) =
        (\A kind \in KeyKinds, scope \in KeyScopes :
            Count(oblA, <<kind, scope>>) = Count(oblB, <<kind, scope>>))

\* Two different orders of three obligations, one of them twice, with one
\* key.
C15_Witness ==
    /\ Len(oblA) = 3
    /\ oblA # oblB
    /\ oblB = <<oblA[3], oblA[1], oblA[2]>>
    /\ oblA[1] = oblA[2]
    /\ keys.a = keys.b

\* C16: an object stored under a non-empty obligation list whose stored
\* obligations are then emptied in place, with no discharge and no store:
\* retrieve fails with CryptographicException and returns no value.
C16_EmptiedRecordIsCryptographicError ==
    (/\ last.op = "retrieve"
     /\ shist[last.obj_id].obj # NoObj
     /\ shist[last.obj_id].obj.obligations # <<>>
     /\ storage[last.obj_id].obligations = <<>>)
        => last.out = [exc |-> "CryptographicException"]

\* The path of the last project call resolves in its argument's value
LastProjectResolves ==
    /\ last.op = "project"
    /\ resolve_pointer(last.in.value, last.path) # Unresolved

\* s is p followed by "/" and more
Below(s, p) == Len(s) > Len(p) /\ SubSeq(s, 1, Len(p) + 1) = p \o <<"/">>

\* C17: when p resolves in o.value, project(o, p) has the value p resolves
\* to, and its obligations are those of o, in order, each (k, s) rewritten:
\* to (k, relscope(s, p)) if s is empty, is p or lies below p; to (k, "") if
\* p lies below s; and left out otherwise.  Nothing else is added.
C17_ProjectRewritesObligations ==
    LastProjectResolves =>
        LET p == last.path
            Applies(o) == \/ o[2] = EmptyStr \/ o[2] = p
                          \/ Below(o[2], p) \/ Below(p, o[2])
            kept == SelectSeq(last.in.obligations, Applies)
        IN /\ last.out.value = resolve_pointer(last.in.value, p)
           /\ Len(last.out.obligations) = Len(kept)
           /\ \A i \in 1..Len(kept) :
                 /\ last.out.obligations[i][1] = kept[i][1]
                 /\ last.out.obligations[i][2] =
                        IF kept[i][2] = EmptyStr \/ kept[i][2] = p \/ Below(kept[i][2], p)
                        THEN relscope(kept[i][2], p)
                        ELSE EmptyStr

\* A projection to "/a" that has kept the obligation on "/a/b" as one on
\* "/b" and left out the one on "/ab".
C17_Witness ==
    /\ LastProjectResolves
    /\ last.path = <<"/", "a">>
    /\ last.in.obligations =
           << <<"pii_clean", <<"/", "a", "/", "b">> >>, <<"sql_safe", <<"/", "a", "b">> >> >>
    /\ last.out.obligations = << <<"pii_clean", <<"/", "b">> >> >>

\* C18: when p does not resolve in o.value, project(o, p) raises nothing
\* and returns the value null, the obligations of o, all of them and as
\* they are, followed by one ("invalid_path", ""), and the evidence of o.
C18_UnresolvedPathIsObligation ==
    (last.op = "project" /\ resolve_pointer(last.in.value, last.path) = Unresolved) =>
        /\ DOMAIN last.out = {"value", "obligations", "evidence"}
        /\ last.out.value = VNull
        /\ Len(last.out.obligations) = Len(last.in.obligations) + 1
        /\ \A i \in 1..Len(last.in.obligations) :
              last.out.obligations[i] = last.in.obligations[i]
        /\ last.out.obligations[Len(last.out.obligations)] = <<"invalid_path", EmptyStr>>
        /\ last.out.evidence = last.in.evidence

\* A path that does not resolve, projected from an object with obligations
\* of which one has a scope beside the path, and with evidence.
C18_Witness ==
    /\ last.op = "project"
    /\ last.path = <<"/", "c">>
    /\ resolve_pointer(last.in.value, last.path) = Unresolved
    /\ Len(last.in.obligations) = 2
    /\ last.in.obligations[1][2] = <<"/", "a">>
    /\ Len(last.in.evidence) > 0
    /\ last.out.value = VNull

\* C19: merge(a, b) has the value [a.value, b.value]; its obligations are
\* those of a, each (k, s) as (k, "/0" + s), followed by those of b, each as
\* (k, "/1" + s), the empty scope becoming "/0" resp. "/1": as many as a and
\* b have together, none lost, none widened.
C19_MergePrefixesScopes ==
    last.op = "merge" =>
        LET a == last.in
            b == last.in2
            m == last.out
            n == Len(a.obligations)
        IN /\ m.value = [t |-> "arr", items |-> <<a.value, b.value>>]
           /\ Len(m.obligations) = n + Len(b.obligations)
           /\ \A i \in 1..n :
                 m.obligations[i] = <<a.obligations[i][1], <<"/", "0">> \o a.obligations[i][2]>>
           /\ \A i \in 1..Len(b.obligations) :
                 m.obligations[n + i] =
                     <<b.obligations[i][1], <<"/", "1">> \o b.obligations[i][2]>>

\* A merge of an object with a scoped and an unscoped obligation and an
\* object with an unscoped one.
C19_Witness ==
    /\ last.op = "merge"
    /\ last.in.obligations = << <<"pii_clean", <<"/", "a">> >>, <<"sql_safe", EmptyStr>> >>
    /\ last.in2.obligations = << <<"sql_safe", EmptyStr>> >>
    /\ last.out.obligations =
           << <<"pii_clean", <<"/", "0", "/", "a">> >>, <<"sql_safe", <<"/", "0">> >>,
              <<"sql_safe", <<"/", "1">> >> >>

\* C20: project and merge always return an object and keep the evidence as
\* it is: project(o, p).evidence is o.evidence, whether or not p resolves,
\* and merge(a, b).evidence is a.evidence followed by b.evidence, every
\* record unchanged (no hash recomputed, no prev_hash re-linked).
C20_EvidenceKeptVerbatim ==
    /\ last.op = "project" =>
          /\ DOMAIN last.out = {"value", "obligations", "evidence"}
          /\ last.out.evidence = last.in.evidence
    /\ last.op = "merge" =>
          /\ DOMAIN last.out = {"value", "obligations", "evidence"}
          /\ Len(last.out.evidence) = Len(last.in.evidence) + Len(last.in2.evidence)
          /\ \A i \in 1..Len(last.in.evidence) :
                last.out.evidence[i] = last.in.evidence[i]
          /\ \A i \in 1..Len(last.in2.evidence) :
                last.out.evidence[Len(last.in.evidence) + i] = last.in2.evidence[i]

\* A merge of two objects that each have one evidence record: the second
\* record still has the prev_hash "" it was written with.
C20_Witness ==
    /\ last.op = "merge"
    /\ Len(last.in.evidence) = 1
    /\ Len(last.in2.evidence) = 1
    /\ last.out.evidence[2].prev_hash = EmptyStr
    /\ last.out.evidence[2].hash = last.in2.evidence[1].hash

\* C21: relscope(scope, base), after stripping the leading '/' of both,
\* returns "" when scope is empty or equals base, "/" + remainder when scope
\* begins with base and base ends where a segment of scope ends, and "" in
\* every other case: also when base is a prefix of scope that ends inside a
\* segment (scope "/commentary", base "/comment").  The base ends at a
\* segment boundary when it is empty or ends with '/', or when the next
\* character of scope is '/'; an empty remainder gives "".
AtBoundary(s, b) ==
    \/ b = <<>>
    \/ b[Len(b)] = "/"
    \/ s[Len(b) + 1] = "/"
C21_RelscopeEmptyOffBoundary ==
    LET s == LStripSlash(rel.scope)
        b == LStripSlash(rel.base)
        remainder == LStripSlash(SubSeq(s, Len(b) + 1, Len(s)))
    IN rel.out =
         IF rel.scope = EmptyStr \/ s = b THEN EmptyStr
         ELSE IF StartsWith(s, b) /\ AtBoundary(s, b) /\ remainder # <<>>
         THEN <<"/">> \o remainder
         ELSE EmptyStr

C23_FailedDischargeChangesNothing ==
    [][ hlast'.op = "discharge" =>
          LET o == hlast'.in
              pending == Contains(HObligations(heap, o), <<hlast'.kind, hlast'.scope>>)
              registered == hlast'.kind \in DefaultRegistry
          IN /\ (pending /\ ~registered) => hlast'.exc = "KeyError"
             /\ (pending /\ registered /\ hlast'.result = Raises)
                    => hlast'.exc = "VerifierException"
             /\ hlast'.exc # "none" =>
                    /\ \A a \in 1..Len(heap) : heap'[a] = heap[a]
                    /\ HObject(heap', o) = HObject(heap, o)
                    /\ \A b \in HObjects(heap') \ HObjects(heap) :
                           HObject(heap', b) = HObject(heap, o)
      ]_vars

\* The lookup has failed in a discharge of a pending obligation of an
\* object that has an evidence record.
C23_Witness ==
    /\ hlast.op = "discharge"
    /\ hlast.exc = "KeyError"
    /\ Contains(HObligations(heap, hlast.in), <<hlast.kind, hlast.scope>>)
    /\ Len(HEvidence(heap, hlast.in)) = 1

\* C24: writes to one obj_id are serialised, last writer wins.  When two
\* callers each retrieve the same stored object, discharge and store back
\* under the same id, in any interleaving, the record the file holds (the
\* ciphertext, the obligations, the evidence and the index rows of that id) is
\* entirely the object of the store that committed last, never a mixture of
\* two writes.
IndexRowsOf(obj_id, obj) ==
    {<<obj_id, obj.obligations[i][1], obj.obligations[i][2]>> :
        i \in 1..Len(obj.obligations)}
EvidenceRowsOf(obj_id, obj) ==
    [i \in 1..Len(obj.evidence) |->
        <<obj_id, obj.evidence[i].verifier_id, obj.evidence[i].timestamp,
          obj.evidence[i].result>>]
C24_LastWriterWins ==
    \A id \in SqlIds :
       LET h == sqhist[id]
           index_rows == {r \in db.obligation_index : r[1] = id}
           evidence_rows == SelectSeq(db.evidence_index, LAMBDA r : r[1] = id)
       IN IF h = NoCommit
          THEN /\ db.chava_objects[id] = NoRow
               /\ index_rows = {}
               /\ evidence_rows = <<>>
          ELSE /\ db.chava_objects[id] = ObjectRow(h.obj, h.nonce)
               /\ index_rows = IndexRowsOf(id, h.obj)
               /\ evidence_rows = EvidenceRowsOf(id, h.obj)
               /\ h.by \in Workers => conn[h.by].pc = "done" /\ conn[h.by].obj = h.obj

\* Both callers read the same stored object, discharged different
\* obligations of it and committed their stores; caller w1 committed last.
C24_Witness ==
    /\ conn["w1"].pc = "done"
    /\ conn["w2"].pc = "done"
    /\ conn["w1"].read = conn["w2"].read
    /\ conn["w1"].obj.obligations # conn["w2"].obj.obligations
    /\ sqhist["id1"].by = "w1"

\* C25: obligations are a multiset in the persistent store too.  An object
\* whose obligations hold the same (kind, scope) pair more than once can be
\* stored, and retrieve returns its obligations with every pair as many times
\* as it was stored.
HasRepeatedPair(obligations) ==
    \E i, j \in 1..Len(obligations) : i # j /\ obligations[i] = obligations[j]
C25_RepeatedPairIsStored ==
    /\ (sqlast.op = "store" /\ HasRepeatedPair(sqlast.in.obligations))
          => sqlast.exc = "none"
    /\ (sqlast.op = "retrieve" /\ sqlast.out.exc = "none")
          => \A i \in 1..Len(sqhist[sqlast.obj_id].obj.obligations) :
                LET pair == sqhist[sqlast.obj_id].obj.obligations[i]
                IN Count(sqlast.out.obj.obligations, pair)
                     = Count(sqhist[sqlast.obj_id].obj.obligations, pair)

\* C26: the trusted persistent store makes no clearance check and round-trips
\* objects.  For an object with a JSON value and pairwise distinct
\* obligations, cleared or not, retrieve(id) after store(id, o) returns an
\* object with o's value, obligations and evidence, also when the retrieve is
\* made by a store instance opened later on the same file.
C26_TrustedStoreRoundTrip ==
    (/\ sqlast.op = "retrieve"
     /\ sqhist[sqlast.obj_id] # NoCommit
     /\ sqhist[sqlast.obj_id].obj.value.t # "bytes")
    => /\ sqlast.out.exc = "none"
       /\ sqlast.out.obj.value = sqhist[sqlast.obj_id].obj.value
       /\ sqlast.out.obj.obligations = sqhist[sqlast.obj_id].obj.obligations
       /\ sqlast.out.obj.evidence = sqhist[sqlast.obj_id].obj.evidence

\* A dict value with a pending obligation and a rejected discharge in its
\* evidence, stored by the first store instance, has been retrieved by the
\* second.
C26_Witness ==
    /\ sqlast.op = "retrieve"
    /\ sqlast.out.exc = "none"
    /\ sqlast.inst = 2
    /\ sqhist[sqlast.obj_id].inst = 1
    /\ sqlast.out.obj.value = Record1
    /\ sqlast.out.obj.obligations # <<>>
    /\ \E i \in 1..Len(sqlast.out.obj.evidence) :
          sqlast.out.obj.evidence[i].result = "reject"

\* C27: the gated store round-trips cleared objects.  For every cleared
\* object (no obligations, evidence that verifies and has no conflict) and
\* every type of value, retrieve(id) after store(id, o) returns an object
\* whose value equals o.value and whose obligations and evidence equal o's.
C27_GatedStoreRoundTrip ==
    (/\ last.op = "retrieve"
     /\ shist[last.obj_id].obj # NoObj
     /\ is_cleared(shist[last.obj_id].obj)
     /\ verify_evidence_chain(shist[last.obj_id].obj.evidence))
    => /\ last.out.exc = "none"
       /\ last.out.obj.value = shist[last.obj_id].obj.value
       /\ last.out.obj.obligations = shist[last.obj_id].obj.obligations
       /\ last.out.obj.evidence = shist[last.obj_id].obj.evidence

\* C28: the obligation index of the persistent store mirrors the stored
\* records.  After any sequence of successful stores, stores of the same id
\* again after a discharge included, query_by_obligation(k) returns exactly
\* the ids whose most recently stored obligations contain the kind k, and
\* query_by_obligation(k, s) exactly the ids whose stored obligations contain
\* (k, s).
StoredWith(kind, scope) ==
    {id \in SqlIds :
        /\ sqhist[id] # NoCommit
        /\ \E i \in 1..Len(sqhist[id].obj.obligations) :
              /\ sqhist[id].obj.obligations[i][1] = kind
              /\ scope # AnyScope => sqhist[id].obj.obligations[i][2] = scope}
C28_IndexMirrorsRecords ==
    sqlast.op = "query" => sqlast.out = StoredWith(sqlast.kind, sqlast.scope)

\* A query by kind and scope finds one id and not the other, whose record was
\* stored again after the discharge of that obligation.
C28_Witness ==
    /\ sqlast.op = "query"
    /\ sqlast.scope # AnyScope
    /\ sqlast.out = {"id2"}
    /\ sqhist["id1"] # NoCommit
    /\ sqhist["id1"].shrunk
    /\ \E i \in 1..Len(sqhist["id1"].obj.evidence) :
          LET record == sqhist["id1"].obj.evidence[i]
          IN /\ record.result = "accept"
             /\ record.kind = sqlast.kind
             /\ record.scope = sqlast.scope

\* C29: get_objects_at_path(p) returns exactly the ids that have an
\* obligation scoped at p or at a descendant of p, for every p, a path with
\* no node in the trie included: an id scoped only strictly above p or in a
\* sibling subtree is never returned.
ScopedAtOrBelow(path) ==
    {a[1] : a \in {x \in tadds : IsPrefix(split_path(path), split_path(x[2]))}}
C29_ExactlyAtOrBelow ==
    trieq.op = "get" => trieq.out = ScopedAtOrBelow(trieq.path)

\* C30: query_by_time_range(t_start, t_end) returns exactly the indexed
\* records whose timestamp t has t_start <= t <= t_end, both ends included,
\* whatever their obj_id and in whatever order and grouping they were added.
InRange(start_time, end_time) ==
    LET within == SelectSeq(evindex,
                            LAMBDA x : start_time <= x[1] /\ x[1] <= end_time)
    IN [i \in 1..Len(within) |-> <<within[i][2], within[i][3]>>]
C30_ExactlyTheRecordsInRange ==
    evq.op = "query" =>
        /\ evq.exc = "none"
        /\ evq.out = InRange(evq.start_time, evq.end_time)


\* C31: the record appended by discharge carries the verifier_id, kind and
\* scope of the call and the verifier's result, its prev_hash is the hash of
\* the last record of the input evidence ("" for an empty input evidence) and
\* its hash is the hash of the record; the input evidence is a prefix of the
\* output evidence, and an input evidence that verifies gives an output
\* evidence that verifies.
C31_DischargeAppendsLinkedRecord ==
    (last.op = "discharge" /\ last.out.exc = "none" /\ last.out.verifier_called) =>
        LET ein == last.in.evidence
            eout == last.out.obj.evidence
            r == eout[Len(eout)]
        IN /\ Len(eout) = Len(ein) + 1
           /\ SubSeq(eout, 1, Len(ein)) = ein
           /\ r.verifier_id = last.verifier_id
           /\ r.kind = last.kind
           /\ r.scope = last.scope
           /\ r.result = last.result
           /\ r.prev_hash = (IF ein = <<>> THEN EmptyStr ELSE ein[Len(ein)].hash)
           /\ r.hash = compute_evidence_hash(r)
           /\ (verify_evidence_chain(ein) => verify_evidence_chain(eout))

\* A discharge that ran its verifier on an object whose evidence already held
\* a record and verified.
C31_Witness ==
    /\ last.op = "discharge"
    /\ last.out.exc = "none"
    /\ last.out.verifier_called
    /\ last.in.evidence # <<>>
    /\ verify_evidence_chain(last.in.evidence)
    /\ verify_evidence_chain(reg.evidence)
    /\ Len(reg.evidence) = Len(last.in.evidence) + 1


\* C32: no obligation disappears without an accept on record.  For every
\* object derived by discharges from an object created with empty evidence,
\* in memory or through retrieve-discharge-store callers of the persistent
\* store, and for every record in the store: the obligations of the created
\* object are, as a multiset, the current obligations plus the (kind, scope)
\* pairs of the accept records of the evidence.  The created objects have
\* distinct values and no operation here changes a value, so the created
\* object of an object is the one with its value.
CreatedAs(o) == CHOOSE c \in LedgerObjects : c.value = o.value
AcceptedPairs(evidence) ==
    LET accepts == SelectSeq(evidence, LAMBDA r : r.result = "accept")
    IN [i \in 1..Len(accepts) |-> <<accepts[i].kind, accepts[i].scope>>]
Balanced(o) ==
    \A pair \in {<<k, EmptyStr>> : k \in DefaultRegistry} \cup
                {o.obligations[i] : i \in 1..Len(o.obligations)} \cup
                {AcceptedPairs(o.evidence)[i] : i \in 1..Len(AcceptedPairs(o.evidence))} :
        Count(CreatedAs(o).obligations, pair)
            = Count(o.obligations, pair) + Count(AcceptedPairs(o.evidence), pair)
C32_NoObligationLostWithoutAccept ==
    /\ reg # NoObj => Balanced(reg)
    /\ \A w \in Workers :
          /\ conn[w].pc \in {"retrieved", "discharged", "inserted", "indexed", "done"}
                => Balanced(conn[w].read)
          /\ conn[w].pc \in {"discharged", "inserted", "indexed", "done"}
                => Balanced(conn[w].obj)
    /\ \A id \in SqlIds :
          sqlite_retrieve(db, id).exc = "none" => Balanced(sqlite_retrieve(db, id).obj)

\* An object created with a pair held twice lost one of the two to an accept
\* in memory and was stored; a batch caller retrieved it, discharged it and
\* wrote the record now in the store, which still holds the other one.
C32_Witness ==
    /\ sqhist["id1"] # NoCommit
    /\ sqhist["id1"].by \in Workers
    /\ Count(CreatedAs(sqhist["id1"].obj).obligations, <<"pii_clean", EmptyStr>>) = 2
    /\ sqlite_retrieve(db, "id1").exc = "none"
    /\ LET o == sqlite_retrieve(db, "id1").obj
       IN /\ Len(o.evidence) = 2
          /\ o.evidence[1].verifier_id \in VerifierIds
          /\ o.evidence[1].result = "accept"
          /\ o.evidence[2].verifier_id \in Workers
          /\ Count(o.obligations, <<"pii_clean", EmptyStr>>) = 1
          /\ Count(AcceptedPairs(o.evidence), <<"pii_clean", EmptyStr>>) = 1


\* C33: a reject is permanent for its kind.  Once the evidence of an object
\* holds a reject for a kind of which an obligation is still pending, no
\* sequence of further discharges of that object gives a cleared object: the
\* obligation stays, or the accept that removes it makes a reject-then-accept
\* conflict.
RejectPending ==
    /\ reg # NoObj
    /\ \E i \in 1..Len(reg.evidence), j \in 1..Len(reg.obligations) :
          /\ reg.evidence[i].result = "reject"
          /\ GetKind(reg.evidence[i]) = reg.obligations[j][1]
C33_RejectIsPermanent ==
    [](RejectPending =>
          [](reg # NoObj /\ ~is_cleared(reg) /\ unwrap(reg).exc = "ObligationViolation"))

\* The only obligation was rejected and then accepted: no obligation is left
\* and the object is not cleared.
C33_Witness ==
    /\ reg # NoObj
    /\ reg.obligations = <<>>
    /\ Len(reg.evidence) = 2
    /\ reg.evidence[1].result = "reject"
    /\ reg.evidence[2].result = "accept"
    /\ GetKind(reg.evidence[1]) = GetKind(reg.evidence[2])
    /\ last.op = "discharge"
    /\ ~is_cleared(reg)


\* C34: with the default registry, which has no verifier for "invalid_path",
\* an object that carries the ("invalid_path", "") obligation of a failed
\* project carries it and is not cleared after every sequence of discharges
\* and projections: a discharge of it raises KeyError and leaves the object
\* as it was, and project keeps an empty-scope obligation with its scope.
InvalidPath == <<"invalid_path", EmptyStr>>
CarriesInvalidPath == reg # NoObj /\ Contains(reg.obligations, InvalidPath)
C34_InvalidPathNeverCleared ==
    [](CarriesInvalidPath =>
          [](/\ CarriesInvalidPath
             /\ ~is_cleared(reg)
             /\ (last.op = "discharge" /\ last.kind = "invalid_path"
                 /\ last.scope = EmptyStr /\ Contains(last.in.obligations, InvalidPath))
                   => (last.out.exc = "KeyError" /\ reg = last.in)))

\* A discharge of the injected obligation raised, on an object that had been
\* projected again (on the whole document) after the project that failed.
C34_Witness ==
    /\ CarriesInvalidPath
    /\ last.op = "discharge"
    /\ last.kind = "invalid_path"
    /\ last.scope = EmptyStr
    /\ last.out.exc = "KeyError"
    /\ reg.value = VNull
    /\ Len(reg.evidence) > 0
    /\ Count(reg.obligations, InvalidPath) = 1


\* C35: merge introduces no conflict of its own: the evidence of merge(a, b)
\* has a conflict if and only if the evidence of a or the evidence of b has.
C35_MergeConflictIffOperandConflict ==
    last.op = "merge" =>
        (has_conflict(last.out.evidence)
            <=> (has_conflict(last.in.evidence) \/ has_conflict(last.in2.evidence)))

\* C35, amended: the evidence of merge(a, b) has a conflict if and only if
\* the evidence of a has one, or the evidence of b has one, or a's evidence
\* holds a reject and b's evidence an accept of the same kind (the reject
\* precedes the accept in the concatenation).
RejectThenAcceptAcross(e1, e2) ==
    \E i \in 1..Len(e1), j \in 1..Len(e2) :
        /\ e1[i].result = "reject"
        /\ e2[j].result = "accept"
        /\ GetKind(e1[i]) = GetKind(e2[j])
C35_MergeConflictAlsoAcrossOperands ==
    last.op = "merge" =>
        (has_conflict(last.out.evidence)
            <=> \/ has_conflict(last.in.evidence)
                \/ has_conflict(last.in2.evidence)
                \/ RejectThenAcceptAcross(last.in.evidence, last.in2.evidence))

\* A merge of two objects without a conflict, the first with a reject and
\* the second with an accept of the same kind: the merged evidence conflicts.
C35_Witness ==
    /\ last.op = "merge"
    /\ ~has_conflict(last.in.evidence)
    /\ ~has_conflict(last.in2.evidence)
    /\ RejectThenAcceptAcross(last.in.evidence, last.in2.evidence)
    /\ has_conflict(reg.evidence)
    /\ reg = last.out


\* C36: verify_evidence_chain constrains neither the prev_hash of the first
\* record nor what follows the last one.  Every contiguous sub-sequence of
\* an evidence sequence that verifies verifies too, so a log with leading or
\* trailing records removed passes the check, and the key service releases
\* the key for it when it has no obligations and no conflict of its own.
Truncated(evidence) ==
    {SubSeq(evidence, i, j) : i \in 1..(Len(evidence) + 1), j \in 0..Len(evidence)}
C36_TruncationNotDetected ==
    verify_evidence_chain(elog) =>
        \A sub \in Truncated(elog) :
            /\ verify_evidence_chain(sub)
            /\ (verify_and_release_key(ChavaObject(VNull, <<>>, sub)) # NoKey)
                  <=> ~has_conflict(sub)

\* A log of three linked records that verifies and has a reject-then-accept
\* conflict; without its first record it starts with a record that links to
\* the removed one, and the key is released for it.
C36_Witness ==
    /\ Len(elog) = 3
    /\ verify_evidence_chain(elog)
    /\ has_conflict(elog)
    /\ elog[2].prev_hash = elog[1].hash
    /\ elog[2].prev_hash # EmptyStr
    /\ verify_and_release_key(ChavaObject(VNull, <<>>, elog)) = NoKey
    /\ verify_and_release_key(ChavaObject(VNull, <<>>, Tail(elog))) # NoKey
    /\ verify_and_release_key(ChavaObject(VNull, <<>>, SubSeq(elog, 1, 1))) # NoKey


\* C37: projection composes.  For pointers p and q with non-empty segments
\* such that p + q resolves in the value of o, and obligation scopes that are
\* empty or well-formed pointers, project(project(o, p), q) is project(o, p + q)
\* in value, obligations (the same pairs in the same order) and evidence.
\* Checked after every project(o, p), for every q.
WellFormed(scope) == scope = EmptyStr \/ Head(scope) = "/"
C37_ProjectionComposes ==
    (/\ last.op = "project"
     /\ \A i \in 1..Len(last.in.obligations) : WellFormed(last.in.obligations[i][2]))
       => \A q \in ComposePaths :
             resolve_pointer(last.in.value, last.path \o q) # Unresolved
                => /\ last.out = project(last.in, last.path)
                   /\ project(last.out, q) = project(last.in, last.path \o q)


\* C38: projection undoes merge on value and obligations.  For objects a and
\* b whose obligation scopes are empty or start with '/', project(merge(a, b),
\* "/0") has the value and the obligations of a and project(merge(a, b), "/1")
\* those of b, and both have the evidence of a followed by the evidence of b.
C38_ProjectUndoesMerge ==
    (/\ last.op = "merge"
     /\ \A i \in 1..Len(last.in.obligations) : WellFormed(last.in.obligations[i][2])
     /\ \A i \in 1..Len(last.in2.obligations) : WellFormed(last.in2.obligations[i][2]))
       => LET m == last.out
              p0 == project(m, <<"/", "0">>)
              p1 == project(m, <<"/", "1">>)
          IN /\ m = merge(last.in, last.in2)
             /\ p0.value = last.in.value
             /\ p0.obligations = last.in.obligations
             /\ p1.value = last.in2.value
             /\ p1.obligations = last.in2.obligations
             /\ p0.evidence = last.in.evidence \o last.in2.evidence
             /\ p1.evidence = last.in.evidence \o last.in2.evidence


\* C39: the inverted index stays consistent with the obligations it tracks.
\* After add(id, O) and any remove_obligation(id, k, s) calls for pairs of O,
\* id is in get_objects_with_kind(k) if and only if an obligation of kind k of
\* that object has not been removed; and no kind maps to an empty bucket.
KindLeft(obj_id, kind) ==
    /\ oblleft[obj_id] # NotAdded
    /\ \E i \in 1..Len(oblleft[obj_id]) : oblleft[obj_id][i][1] = kind
C39_IndexFollowsObligations ==
    /\ \A obj_id \in KindIds, kind \in DefaultRegistry :
          obj_id \in get_objects_with_kind(oblindex, kind) <=> KindLeft(obj_id, kind)
    /\ \A kind \in DOMAIN oblindex : oblindex[kind] # {}
    /\ oblq.op = "get_objects_with_kind"
          => oblq.out = {obj_id \in KindIds : KindLeft(obj_id, oblq.kind)}


\* C40: query_by_verifier(v, start, end) returns, for every stored evidence
\* record whose verifier_id is v and whose timestamp is within the bounds,
\* that record with its obj_id: every returned record has verifier_id v and a
\* timestamp within the bounds, also for objects whose evidence holds records
\* of several verifiers.
WithinBounds(t, start_time, end_time) ==
    /\ (start_time # NoTime => t >= start_time[1])
    /\ (end_time # NoTime => t <= end_time[1])
StoredMatches(verifier_id, start_time, end_time) ==
    {<<id, i>> \in SqlIds \X (1..MaxEvidence) :
        /\ sqhist[id] # NoCommit
        /\ i <= Len(sqhist[id].obj.evidence)
        /\ sqhist[id].obj.evidence[i].verifier_id = verifier_id
        /\ WithinBounds(sqhist[id].obj.evidence[i].timestamp, start_time, end_time)}
C40_QueryReturnsTheMatchingRecords ==
    sqlast.op = "query_by_verifier" =>
        LET out == sqlast.out
            matches == StoredMatches(sqlast.verifier_id, sqlast.start_time, sqlast.end_time)
        IN /\ \A i \in 1..Len(out) :
                 /\ out[i][2].verifier_id = sqlast.verifier_id
                 /\ WithinBounds(out[i][2].timestamp, sqlast.start_time, sqlast.end_time)
           /\ Len(out) = Cardinality(matches)
           /\ \A m \in matches :
                 \E i \in 1..Len(out) :
                     out[i] = <<m[1], sqhist[m[1]].obj.evidence[m[2]]>>

====
